---------------------------- MODULE Spec2Model ----------------------------
(***************************************************************************)
(* A model of the HomeKit accessory object graph of this repository:       *)
(*   - Characteristic (src/Characteristic.js): the cached value, the       *)
(*     'get'/'set' listener protocol, the 'change' event and toHAP;        *)
(*   - Service (src/lib/Service.js): the list of characteristics;          *)
(*   - Bridge (src/unnamed/part_006): the list of bridged accessories;     *)
(*   - Storage (src/unnamed/part_007): the queue of reads and writes.      *)
(* Each component has its own specifications; the variables of the other    *)
(* components keep their initial value under them:                         *)
(*   - Characteristic: SpecCell and SpecOnGetFair (listeners), SpecWrite,  *)
(*     SpecNoListener, SpecFormats (writes and reads), SpecHAP (toHAP);    *)
(*   - Service: SpecService, SpecLookup, SpecMembers, SpecIDs, SpecOwned,  *)
(*     SpecNew (the constructors), SpecLate (IDs and later additions);     *)
(*   - Bridge: SpecBridge, SpecSeed, SpecRecompute, SpecChildren;          *)
(*   - Storage: SpecStorage, SpecStorageFair.                              *)
(***************************************************************************)
EXTENDS Integers, Sequences, FiniteSets, TLC

VARIABLES
  \* ---- Characteristic (one instance) ----
  props,      \* this.props: [format, minValue]
  value,      \* this.value, the cached value
  getL,       \* this.listeners('get').length > 0
  setL,       \* this.listeners('set').length > 0
  reqs,       \* the getValue/setValue requests handed to a listener, by id
  emitted,    \* the 'change' events emitted by the last step, in order
  called,     \* the caller callbacks invoked by the last step, in order
  threw       \* whether the last step raised an error to whoever made the call

cellVars == <<props, value, getL, setL, reqs, emitted, called, threw>>

VARIABLES
  \* ---- Service (one instance) ----
  characteristics,          \* this.characteristics, in order
  optionalCharacteristics,  \* this.optionalCharacteristics, in order
  subs,       \* per characteristic object: the 'change' listeners this Service put on it
  svcEmitted, \* the events this Service emitted in the last step, in order
  svcRet,     \* what the last call returned
  svcThrew,   \* the error the last call raised (NoErr: none)
  svcHap      \* the object the last call returned, when it was toHAP

svcVars ==
  <<characteristics, optionalCharacteristics, subs, svcEmitted, svcRet, svcThrew, svcHap>>

VARIABLES
  \* ---- Bridge (one instance) and the Accessory objects it is given ----
  bridgedAccessories,  \* this.bridgedAccessories, in order
  bridged,    \* per accessory: accessory.bridged
  hasBS,      \* per accessory: it has a BridgingState service
  seeded,     \* per accessory: the values set in its BridgingState service
  lis,        \* per accessory: the listener pairs this Bridge put on it
  accReachable, \* per accessory: accessory.reachable
  accCategory,  \* per accessory: accessory.category
  recomputes, \* the calls of this._updateConfiguration() in the last step
  configured, \* the bridgedAccessories the last of these calls found
  handled,    \* the calls of this._handleCharacteristicChange() in the last
              \* step: the accessory each change was annotated with
  brCall,     \* the method of the Bridge that was called last
  brThrew     \* the error the last call raised (NoErr: none)

brVars ==
  <<bridgedAccessories, bridged, hasBS, seeded, lis, accReachable, accCategory,
    recomputes, configured, handled, brCall, brThrew>>

VARIABLES
  \* ---- Characteristic.prototype.toHAP ----
  hap         \* the object the last toHAP call returned

hapVars == <<hap>>

VARIABLES
  \* ---- the Services of one Accessory and its IdentifierCache ----
  services,   \* the Services: UUID, subtype, the UUIDs of characteristics
              \* and of optionalCharacteristics, in order
  svcIID,     \* per Service: this.iid (0: null)
  charIID,    \* per Service: the iid of each of its characteristics
  optIID,     \* per Service: the iid of each of its optionalCharacteristics
  issued,     \* the keys the IdentifierCache has given an IID, in order
  firstIID,   \* the first IID the IdentifierCache gives out
  asked       \* the keys getIID was called with in the last step, in order

idVars == <<services, svcIID, charIID, optIID, issued, firstIID, asked>>

VARIABLES
  \* what was called before
  lastUpdate, \* kept under SpecNoListener only: the newValue of the
              \* updateValue call that was the last mutation of the
              \* characteristic (NoVal: there is none)
  svcCall,    \* kept under SpecLookup and SpecMembers only: the method of
              \* the Service that was called last and, for
              \* getCharacteristic, its argument
  svcArg,     \* kept under SpecMembers only: the characteristic the last
              \* step was about, where it was in this.characteristics
              \* before the step, and the 'change' event it emitted
  brArg       \* kept under SpecRecompute and SpecChildren only: the
              \* accessory the last step was about and the deferUpdate
              \* argument of the call

histVars == <<lastUpdate, svcCall, svcArg, brArg>>

VARIABLES
  \* ---- Storage (the module with the queue, one instance) ----
  data,       \* this.data: the value of each key (0: the key is absent)
  queue,      \* this.queue: the tasks waiting, oldest first, by number
  lock,       \* this.lock
  file,       \* what the file holds (NoFile: there is no file)
  reads,      \* the fs.readFile calls in flight: the task, and the contents
              \* the file has had since the call
  writing,    \* the fs.writeFile call in flight (NoWrite: none)
  tasks,      \* every task passed to get or set so far, by number
  answered,   \* per task: what its callback was called with (NoAnswer: it
              \* has not been called)
  settled     \* per key: the value of the set that completed last, when no
              \* set of the key was called after it (0 otherwise)

stoVars == <<data, queue, lock, file, reads, writing, tasks, answered, settled>>

vars == <<cellVars, svcVars, brVars, hapVars, idVars, histVars, stoVars>>

-----------------------------------------------------------------------------
(* Bounds of the model *)

\* how many getValue/setValue requests are handed to listeners in one behaviour
MaxReq == 2
\* how many times a listener invokes the callback it was handed, per request
MaxTries == 2
\* how many Characteristic subclasses (constructors) there are; each has its own UUID
NCtor == 2
\* how many optional characteristics a Service is given
MaxOpt == 1
\* how many Services the Accessory has
NSvc == 3
\* how many Accessory objects there are
NAcc == 4
\* how many listener pairs a Bridge may leave on one accessory
MaxLis == 2
\* the numbers toHAP is explored on are the quarters from -MaxQ/4 to MaxQ/4
MaxQ == 4
\* the strings toHAP is explored on have an ASCII part of 0, 64 or 256
\* characters, give or take MaxD
MaxD == 1
\* the calls of get and set on the Storage
MaxCalls == 4

-----------------------------------------------------------------------------
(* JavaScript values.  A value is a record [t, v]: t is the JS type and v    *)
(* the payload, so that = on records is JS strict equality (===) on the      *)
(* primitives modelled here.                                                 *)

Null       == [t |-> "null", v |-> 0]     \* null or undefined
NoVal      == [t |-> "none", v |-> 0]     \* an argument that was not passed
Bool(b)    == [t |-> "bool", v |-> IF b THEN 1 ELSE 0]
Num(n)     == [t |-> "num",  v |-> n]     \* a number, in hundredths
NaN        == [t |-> "nan",  v |-> 0]
Arr(id)    == [t |-> "array", v |-> id]   \* an array object, by its identity
NewArray   == Arr(-1)                     \* the expression []: an array not yet made
\* a string: pre ASCII characters, then at most one other character (""
\* for none), then post ASCII characters
Utf8(pre, wide, post) == [t |-> "str", v |-> <<pre, wide, post>>]
Str(n)     == Utf8(n, "", 0)              \* an ASCII string, by its length ("" is Str(0))

\* the values callers and listeners pass in
InVals == {Null, Bool(TRUE)}

NoErr == "none"
Errs  == {"E1", "E2"}
\* context objects: the ones passed to updateValue and to a setValue that no
\* listener handles, the one passed with request r, and the one a re-entrant
\* callback passes
Ctxs      == {<<"ctx", 1>>}
ReqCtx(r) == <<"req", r>>
CbCtx     == <<"cb", 0>>

\* this.props.  minValue and maxValue are Null or a number; minStep is NoStep
\* (null) or the decimal string of the number: how many digits follow its
\* point and its exponent ("0.1" is [frac |-> 1, exp |-> 0], "1e-7" is
\* [frac |-> 0, exp |-> -7]).
NoStep == [frac |-> -1, exp |-> 0]
Props(format, minValue, maxValue, minStep, perms) ==
  [format |-> format, minValue |-> minValue, maxValue |-> maxValue,
   minStep |-> minStep, perms |-> perms]

\* the props of the characteristics whose value protocol is explored
PropsChoices ==
  {Props("bool", Null, Null, NoStep, {"pr", "pw", "ev"}),
   Props("int", Num(100), Null, NoStep, {"pr", "pw", "ev"})}

-----------------------------------------------------------------------------
(* The objects a Service and a Bridge are given *)

\* Characteristic objects.  A subclass k (Characteristic.On, ...) has the
\* static UUID k and gives its instances that UUID.  There is one instance of
\* each subclass, a second instance of subclass 1 (copy "b"), and a custom
\* characteristic: an instance of the base class made with
\* new Characteristic(name, UUID), with the UUID of subclass 1.
Ctors  == 1..NCtor
CharObjs ==
  {[ctor |-> k, UUID |-> k, copy |-> "a"] : k \in Ctors}
    \cup {[ctor |-> 1, UUID |-> 1, copy |-> "b"], [ctor |-> 0, UUID |-> 1, copy |-> "a"]}

None == [ctor |-> -1, UUID |-> -1, copy |-> "none"]      \* undefined

\* the last call was not toHAP
NoSvcHap == [returned |-> FALSE, characteristics |-> <<>>]

SvcIdle ==
  /\ svcHap = NoSvcHap
  /\ characteristics = <<>>
  /\ optionalCharacteristics = <<>>
  /\ subs = [o \in CharObjs |-> 0]
  /\ svcEmitted = <<>>
  /\ svcRet = None
  /\ svcThrew = NoErr

\* Accessory objects: accessory a has UUID AccUUID(a), so that two distinct
\* objects share each UUID, and the last one is a Bridge.
Accs        == 1..NAcc
AccUUID(a)  == (a + 1) \div 2
isBridge(a) == a = NAcc
NoSeed      == [identifier |-> 0, reachable |-> FALSE, category |-> 0]

BridgeIdle ==
  /\ bridgedAccessories = <<>>
  /\ bridged = [a \in Accs |-> FALSE]
  /\ hasBS = [a \in Accs |-> FALSE]
  /\ seeded = [a \in Accs |-> NoSeed]
  /\ lis = [a \in Accs |-> 0]
  /\ accReachable = [a \in Accs |-> TRUE]
  /\ accCategory = [a \in Accs |-> a]
  /\ recomputes = 0
  /\ configured = <<>>
  /\ handled = <<>>
  /\ brCall = "new"
  /\ brThrew = NoErr

\* The Services of the Accessory whose IDs are assigned.  The first is the
\* Accessory Information service; the others have one of two UUIDs, with or
\* without a subtype; no two have the same UUID and subtype.  A Service has
\* the characteristics 1 and 2: each is in this.characteristics or in
\* this.optionalCharacteristics.
AccessoryInformation == "0000003E-0000-1000-8000-0026BB765291"
ServiceUUIDs == {"A", "B"}
NoSubtype    == "undefined"
Subtypes     == {NoSubtype, "s"}
CharLists    == {<<1>>, <<1, 2>>}
Optional(list) == SelectSeq(<<1, 2>>, LAMBDA u : \A n \in DOMAIN list : list[n] # u)
ServiceRec(UUID, subtype, list) ==
  [UUID |-> UUID, subtype |-> subtype,
   characteristics |-> list, optionalCharacteristics |-> Optional(list)]
Layouts ==
  {l \in [1..NSvc ->
            {ServiceRec(U, st, list) :
               U \in ServiceUUIDs \cup {AccessoryInformation},
               st \in Subtypes, list \in CharLists}] :
     /\ l[1].UUID = AccessoryInformation
     /\ l[1].subtype = NoSubtype
     /\ \A i \in 2..NSvc : l[i].UUID # AccessoryInformation
     /\ \A i, j \in 1..NSvc :
          (l[i].UUID = l[j].UUID /\ l[i].subtype = l[j].subtype) => i = j}

\* no Accessory is looked at: the variables of the IDs stay at these values
IdIdle ==
  /\ services = <<>> /\ svcIID = <<>> /\ charIID = <<>> /\ optIID = <<>>
  /\ issued = <<>> /\ firstIID = 0 /\ asked = <<>>

\* no toHAP call has returned yet
NoHap ==
  [format |-> "none", perms |-> {}, value |-> NoVal,
   minValue |-> NoVal, maxValue |-> NoVal, minStep |-> NoVal, maxLen |-> NoVal]

NoSel   == [kind |-> "none", ctor |-> 0, name |-> <<0, 0>>]
NoChange == [oldValue |-> NoVal, newValue |-> NoVal, context |-> <<"none", 0>>]
NoArg   == [obj |-> None, at |-> 0, change |-> NoChange]
NoBrArg == [accessory |-> 0, deferUpdate |-> FALSE]
HapIdle ==
  /\ hap = NoHap /\ lastUpdate = NoVal
  /\ svcCall = [method |-> "new", name |-> NoSel]
  /\ svcArg = NoArg
  /\ brArg = NoBrArg

\* Storage: the keys and the values of the exploration; an object is a
\* function from the keys to values, 0 for a key it does not have
Keys     == {"k", "j"}
Values   == {1, 2}
EmptyObj == [k \in Keys |-> 0]
\* what the file holds: an object, or nothing when there is no file
File(obj) == [exists |-> TRUE, obj |-> obj]
NoFile   == [exists |-> FALSE, obj |-> EmptyObj]
NoWrite  == [task |-> 0, content |-> NoFile]
NoAnswer == [err |-> FALSE, val |-> -1]

\* new Storage(filename), with no file or with a file that holds {}
StoNew ==
  /\ data = EmptyObj
  /\ queue = <<>>
  /\ lock = FALSE
  /\ reads = {}
  /\ writing = NoWrite
  /\ tasks = <<>>
  /\ answered = <<>>
  /\ settled = EmptyObj

\* no Storage is looked at
StoIdle == StoNew /\ file = NoFile

-----------------------------------------------------------------------------
(* Characteristic: the value protocol *)

\* lib/util/once: the wrapper handed to the listener runs the wrapped function
\* on its first invocation only; later invocations are dropped without raising.
\* `latch` is the wrapper's "already called" flag.
once(latch) == [pass |-> ~latch, threw |-> FALSE]

\* a wrapper that does not latch
onceNoLatch(latch) == [pass |-> TRUE, threw |-> FALSE]

\* getValue/setValue hand the listener once(function(err, ...) {...})
latched(latch) == once(latch)

\* Characteristic.prototype.getDefaultValue; `minValue || 0` is 0 for null and 0
getDefaultValue(p) ==
  CASE p.format = "bool"   -> Bool(FALSE)
    [] p.format = "string" -> Str(0)
    [] p.format = "array"  -> NewArray
    [] OTHER -> IF p.minValue = Null \/ p.minValue = Num(0) THEN Num(0) ELSE p.minValue

\* a fill that leaves null as it is
fillNothing(raw, p) == raw

\* if (newValue === undefined || newValue === null) newValue = this.getDefaultValue()
fill(raw, p) == IF raw = Null THEN getDefaultValue(p) ELSE raw

\* evaluating []: the array made is a new object, so it is not the one the
\* cache holds (the caller's arrays have the identities from 2 on)
alloc(val, cur) ==
  IF val = NewArray
  THEN IF cur = Arr(0) THEN Arr(1) ELSE Arr(0)
  ELSE val

changedAlways(oldValue, newValue) == TRUE

\* if (oldValue !== newValue): NaN is not identical to NaN
changed(oldValue, newValue) ==
  oldValue # newValue \/ (oldValue = NaN /\ newValue = NaN)

changeEvent(oldValue, newValue, context) ==
  [oldValue |-> oldValue, newValue |-> newValue, context |-> context]

\* var oldValue = this.value; this.value = newValue; ...;
\* if (oldValue !== newValue) this.emit('change', {...})
\* Result: the new cache and the events emitted.
store(cur, raw, context, p) ==
  LET newValue == alloc(fill(raw, p), cur)
  IN  [value |-> newValue,
       ev    |-> IF changed(cur, newValue)
                 THEN <<changeEvent(cur, newValue, context)>> ELSE <<>>]

\* What a caller's callback does when invoked between the cache write and the
\* emit: nothing (NoVal), or a synchronous updateValue(w) on the same cell.
Reentry == {NoVal, Bool(TRUE)}

\* The cache write, the caller's callback(cbOn) and the emit of one mutation
\* path.  The callback runs after the write and before the emit, so what it
\* emits comes first.
assign(cur, raw, context, p, cbOn, re) ==
  LET outer == store(cur, raw, context, p)
      inner == IF cbOn /\ re # NoVal
               THEN store(outer.value, re, CbCtx, p)
               ELSE [value |-> outer.value, ev |-> <<>>]
  IN  [value |-> inner.value, ev |-> inner.ev \o outer.ev]

cb(r, err, val) == [req |-> r, err |-> err, val |-> val]

newReq(kind, arg, cbOn) ==
  [kind |-> kind, arg |-> arg, cb |-> cbOn, latch |-> FALSE, fired |-> 0, tries |-> 0]

\* characteristic.on('get', listener)
onGet ==
  /\ ~getL
  /\ getL' = TRUE
  /\ emitted' = <<>> /\ called' = <<>> /\ threw' = FALSE
  /\ UNCHANGED <<props, value, setL, reqs>>

\* characteristic.on('set', listener)
onSet ==
  /\ ~setL
  /\ setL' = TRUE
  /\ emitted' = <<>> /\ called' = <<>> /\ threw' = FALSE
  /\ UNCHANGED <<props, value, getL, reqs>>

\* a getValue that, with no listener, stores the default when the cache
\* holds NaN
getValueRepairing(cbOn, context) ==
  LET a == store(value, IF value = NaN THEN Null ELSE value, context, props)
  IN  /\ ~getL
      /\ value' = a.value
      /\ emitted' = a.ev
      /\ called' = IF cbOn THEN <<cb(0, NoErr, a.value)>> ELSE <<>>
      /\ threw' = FALSE
      /\ UNCHANGED <<props, getL, setL, reqs>>

\* Characteristic.prototype.getValue(callback, context): the request's context
\* is the request itself (a fresh object per call) when it goes to a listener.
getValue(cbOn, context) ==
  IF getL
  THEN /\ Len(reqs) < MaxReq
       /\ cbOn
       /\ reqs' = Append(reqs, newReq("get", NoVal, cbOn))
       /\ emitted' = <<>> /\ called' = <<>> /\ threw' = FALSE
       /\ UNCHANGED <<props, value, getL, setL>>
  ELSE /\ called' = IF cbOn THEN <<cb(0, NoErr, value)>> ELSE <<>>
       /\ emitted' = <<>> /\ threw' = FALSE
       /\ UNCHANGED <<props, value, getL, setL, reqs>>

\* a setValue that, with a listener, writes the cache before the listener has
\* answered
setValueWritesFirst(newValue, cbOn, context, re) ==
  LET a == assign(value, newValue, context, props, FALSE, re)
  IN  /\ value' = a.value
      /\ emitted' = a.ev
      /\ IF setL
         THEN /\ Len(reqs) < MaxReq
              /\ re = NoVal /\ cbOn
              /\ reqs' = Append(reqs, newReq("set", newValue, cbOn))
              /\ called' = <<>>
         ELSE /\ called' = IF cbOn THEN <<cb(0, NoErr, NoVal)>> ELSE <<>>
              /\ UNCHANGED reqs
      /\ threw' = FALSE
      /\ UNCHANGED <<props, getL, setL>>

\* Characteristic.prototype.setValue(newValue, callback, context)
setValue(newValue, cbOn, context, re) ==
  IF setL
  THEN /\ Len(reqs) < MaxReq
       /\ re = NoVal /\ cbOn
       /\ reqs' = Append(reqs, newReq("set", newValue, cbOn))
       /\ emitted' = <<>> /\ called' = <<>> /\ threw' = FALSE
       /\ UNCHANGED <<props, value, getL, setL>>
  ELSE LET a == assign(value, newValue, context, props, cbOn, re)
       IN  /\ value' = a.value
           /\ emitted' = a.ev
           /\ called' = IF cbOn THEN <<cb(0, NoErr, NoVal)>> ELSE <<>>
           /\ threw' = FALSE
      /\ UNCHANGED <<props, getL, setL, reqs>>

\* an updateValue that writes only when the characteristic has the WRITE
\* permission
updateValueChecked(newValue, cbOn, context, re) ==
  LET a == assign(value, newValue, context, props, cbOn, re)
  IN  /\ value' = IF "pw" \in props.perms THEN a.value ELSE value
      /\ emitted' = IF "pw" \in props.perms THEN a.ev ELSE <<>>
      /\ called' = IF cbOn THEN <<cb(0, NoErr, NoVal)>> ELSE <<>>
      /\ threw' = FALSE
      /\ UNCHANGED <<props, getL, setL, reqs>>

\* Characteristic.prototype.updateValue(newValue, callback, context)
updateValue(newValue, cbOn, context, re) ==
  LET a == assign(value, newValue, context, props, cbOn, re)
  IN  /\ value' = a.value
      /\ emitted' = a.ev
      /\ called' = IF cbOn THEN <<cb(0, NoErr, NoVal)>> ELSE <<>>
      /\ threw' = FALSE
      /\ UNCHANGED <<props, getL, setL, reqs>>

\* a handler that, after passing an error to the callback, falls through to
\* the success path
handlerFallThrough(q, r, err, newValue, re) ==
  LET raw == IF q.kind = "get" THEN newValue ELSE q.arg
      a   == assign(value, raw, ReqCtx(r), props, q.cb, re)
  IN  [value |-> a.value, ev |-> a.ev,
       called |-> IF q.cb THEN <<cb(r, err, NoVal)>> ELSE <<>>]

\* a handler that caches the value but never calls the caller's callback
handlerNoCallback(q, r, err, newValue, re) ==
  LET raw == IF q.kind = "get" THEN newValue ELSE q.arg
      a   == assign(value, raw, ReqCtx(r), props, FALSE, re)
  IN  IF err # NoErr
      THEN [value |-> value, ev |-> <<>>, called |-> <<>>]
      ELSE [value |-> a.value, ev |-> a.ev, called |-> <<>>]

\* a handler that drops the answer to a request when a request issued after
\* it has been answered already
handlerDropsStale(q, r, err, newValue, re) ==
  LET raw == IF q.kind = "get" THEN newValue ELSE q.arg
      a   == assign(value, raw, ReqCtx(r), props, q.cb, re)
      stale == \E s \in (r + 1)..Len(reqs) : reqs[s].latch
  IN  IF err # NoErr \/ stale
      THEN [value |-> value, ev |-> <<>>,
            called |-> IF q.cb THEN <<cb(r, err, NoVal)>> ELSE <<>>]
      ELSE [value |-> a.value, ev |-> a.ev,
            called |-> IF q.cb THEN <<cb(r, NoErr, NoVal)>> ELSE <<>>]

\* The function getValue/setValue wrap in once, for request q = reqs[r]:
\*   function(err, newValue) { if (err) { if (callback) callback(err); }
\*                             else { default-fill; cache; callback; emit } }
\* A callback that receives an error has nothing after it in the handler, so
\* what it does then is a later step of its own.
\* Result: the new cache, the events emitted, the callbacks invoked.
handler(q, r, err, newValue, re) ==
  LET raw == IF q.kind = "get" THEN newValue ELSE q.arg
      a   == assign(value, raw, ReqCtx(r), props, q.cb, re)
  IN  IF err # NoErr
      THEN [value |-> value, ev |-> <<>>,
            called |-> IF q.cb THEN <<cb(r, err, NoVal)>> ELSE <<>>]
      ELSE [value |-> a.value, ev |-> a.ev,
            called |-> IF q.cb
                       THEN <<cb(r, NoErr, IF q.kind = "get"
                                                  THEN alloc(fill(raw, props), value)
                                                  ELSE NoVal)>>
                       ELSE <<>>]

\* The listener invokes the callback it was handed for request r with
\* (err, newValue).
resolve(r, err, newValue, re) ==
  /\ r \in 1..Len(reqs)
  /\ reqs[r].tries < MaxTries
  /\ LET q == reqs[r]
         o == latched(q.latch)
         h == handler(q, r, err, newValue, re)
     IN  IF ~o.pass
         THEN /\ reqs' = [reqs EXCEPT ![r].tries = @ + 1]
              /\ emitted' = <<>> /\ called' = <<>>
              /\ threw' = o.threw
              /\ UNCHANGED value
         ELSE /\ reqs' = [reqs EXCEPT ![r].tries = @ + 1, ![r].latch = TRUE,
                                      ![r].fired = @ + Len(h.called)]
              /\ value' = h.value
              /\ emitted' = h.ev
              /\ called' = h.called
              /\ threw' = FALSE
  /\ UNCHANGED <<props, getL, setL>>

InitCell ==
  /\ SvcIdle /\ BridgeIdle /\ HapIdle /\ IdIdle /\ StoIdle
  /\ props \in PropsChoices
  /\ value = Null
  /\ getL = FALSE /\ setL = FALSE
  /\ reqs = <<>>
  /\ emitted = <<>> /\ called = <<>> /\ threw = FALSE

\* what the listener passes to the callback: (err), (null, value) or ()
ResolveArgs ==
  {<<e, NoVal>> : e \in Errs} \cup {<<NoErr, v>> : v \in InVals}

\* a step of the Characteristic: the other objects are not touched
Cell(A) == A /\ UNCHANGED <<svcVars, brVars, hapVars, idVars, stoVars, histVars>>

NextCell ==
  \/ Cell(onGet)
  \/ Cell(onSet)
  \/ \E c \in BOOLEAN, x \in Ctxs : Cell(getValue(c, x))
  \/ \E v \in InVals, c \in BOOLEAN, x \in Ctxs, re \in Reentry : Cell(setValue(v, c, x, re))
  \/ \E v \in InVals, c \in BOOLEAN, x \in Ctxs, re \in Reentry : Cell(updateValue(v, c, x, re))
  \/ \E r \in 1..MaxReq, a \in ResolveArgs, re \in Reentry : Cell(resolve(r, a[1], a[2], re))

SpecCell == InitCell /\ [][NextCell]_vars

\* Characteristic.On: a bool characteristic whose constructor sets
\* this.value = this.getDefaultValue()
OnProps == Props("bool", Null, Null, NoStep, {"pr", "pw", "ev"})

InitOn ==
  /\ SvcIdle /\ BridgeIdle /\ HapIdle /\ IdIdle /\ StoIdle
  /\ props = OnProps
  /\ value = getDefaultValue(OnProps)
  /\ getL = FALSE /\ setL = FALSE
  /\ reqs = <<>>
  /\ emitted = <<>> /\ called = <<>> /\ threw = FALSE

\* The reads of the "On" characteristic: a 'get' listener is registered,
\* getValue is called, the listener invokes the callbacks it was handed, and
\* the accessory reports the state it observes with updateValue.
NextOnGet ==
  \/ Cell(onGet)
  \/ \E c \in BOOLEAN, x \in Ctxs : Cell(getValue(c, x))
  \/ \E v \in InVals, c \in BOOLEAN, x \in Ctxs, re \in Reentry : Cell(updateValue(v, c, x, re))
  \/ \E r \in 1..MaxReq, a \in ResolveArgs, re \in Reentry : Cell(resolve(r, a[1], a[2], re))

\* The listener of every request handed out eventually invokes its callback.
FairCell == \A r \in 1..MaxReq :
  WF_vars(\E a \in ResolveArgs, re \in Reentry : Cell(resolve(r, a[1], a[2], re)))

SpecOnGetFair == InitOn /\ [][NextOnGet]_vars /\ FairCell

-----------------------------------------------------------------------------
(* Service: the list of characteristics *)

\* what a caller passes where a characteristic is selected: a display name
\* (string) or a constructor (function)
CharName(o) == <<o.ctor, o.UUID>>
Selectors ==
  {[kind |-> "function", ctor |-> k, name |-> <<0, 0>>] : k \in Ctors}
    \cup {[kind |-> "string", ctor |-> 0, name |-> CharName(o)] : o \in CharObjs}

\* what addCharacteristic / addOptionalCharacteristic are passed: an instance
\* or a constructor
CharArgs ==
  {[kind |-> "instance", obj |-> o, ctor |-> o.ctor] : o \in CharObjs}
    \cup {[kind |-> "function", obj |-> None, ctor |-> k] : k \in Ctors}

Range(q) == {q[i] : i \in DOMAIN q}

\* an object no list holds and nobody listens to stands for a new instance
Unused(o) ==
  /\ o \notin Range(characteristics)
  /\ o \notin Range(optionalCharacteristics)
  /\ subs[o] = 0

\* new (Function.prototype.bind.apply(characteristic, arguments)) / new characteristic()
HasNew(k) == \E o \in CharObjs : o.ctor = k /\ Unused(o)
New(k)    == CHOOSE o \in CharObjs : o.ctor = k /\ Unused(o)

configChange == [type |-> "service-configurationChange", characteristic |-> None]
charChange(o) == [type |-> "characteristic-change", characteristic |-> o]

conflictNever(list, UUID) == FALSE

\* "Cannot add a Characteristic with the same UUID as another Characteristic in
\* this Service", and the TypeError of a method call on undefined
SameUUID  == "SameUUID"
TypeError == "TypeError"

\* for (var index in this.characteristics) if (existing.UUID === characteristic.UUID) throw
conflict(list, UUID) == \E i \in DOMAIN list : list[i].UUID = UUID

\* an addCharacteristic that puts its listener on the characteristic before it
\* looks for a UUID conflict
addResultListenFirst(list, sb, arg) ==
  LET UUID == IF arg.kind = "function" THEN arg.ctor ELSE arg.obj.UUID
      o    == IF arg.kind = "function" THEN New(arg.ctor) ELSE arg.obj
  IN  [list  |-> IF conflict(list, UUID) THEN list ELSE Append(list, o),
       subs  |-> IF arg.kind = "function" /\ conflict(list, UUID)
                 THEN sb ELSE [sb EXCEPT ![o] = @ + 1],
       ev    |-> IF conflict(list, UUID) THEN <<>> ELSE <<configChange>>,
       ret   |-> IF conflict(list, UUID) THEN None ELSE o,
       threw |-> IF conflict(list, UUID) THEN SameUUID ELSE NoErr]

\* Service.prototype.addCharacteristic, on the current state.  Result: the
\* new list, the new listener counts, what was emitted and returned, whether
\* it raised.
addResult(list, sb, arg) ==
  LET UUID == IF arg.kind = "function" THEN arg.ctor ELSE arg.obj.UUID
      o    == IF arg.kind = "function" THEN New(arg.ctor) ELSE arg.obj
  IN  IF conflict(list, UUID)
      THEN [list |-> list, subs |-> sb, ev |-> <<>>, ret |-> None, threw |-> SameUUID]
      ELSE [list |-> Append(list, o),
            subs |-> [sb EXCEPT ![o] = @ + 1],
            ev   |-> <<configChange>>,
            ret  |-> o,
            threw |-> NoErr]

addCharacteristic(arg) ==
  /\ arg.kind = "function" => (HasNew(arg.ctor) \/ conflict(characteristics, arg.ctor))
  /\ LET a == addResult(characteristics, subs, arg)
     IN  /\ characteristics' = a.list
         /\ subs' = a.subs
         /\ svcEmitted' = a.ev
         /\ svcRet' = a.ret
         /\ svcThrew' = a.threw
  /\ UNCHANGED optionalCharacteristics

\* a loop index kept as a number: the first position is 0, which
\* if (targetCharacteristicIndex) takes for "not found"
indexOfAsNumber(list, o) ==
  IF \E i \in 2..Len(list) : list[i] = o /\ \A j \in 1..(i - 1) : list[j] # o
  THEN CHOOSE i \in 2..Len(list) : list[i] = o /\ \A j \in 1..(i - 1) : list[j] # o
  ELSE 0

\* the index removeCharacteristic's loop stops at (0: none).  for..in yields
\* the keys "0", "1", ..., all of which if (targetCharacteristicIndex) takes
\* for found; undefined it does not.
indexOf(list, o) ==
  IF \E i \in DOMAIN list : list[i] = o
  THEN CHOOSE i \in DOMAIN list : list[i] = o /\ \A j \in 1..(i - 1) : list[j] # o
  ELSE 0

\* this.characteristics.splice(index, 1)
splice(list, i) == [j \in 1..(Len(list) - 1) |-> IF j < i THEN list[j] ELSE list[j + 1]]

\* a removeCharacteristic that leaves the listeners on the characteristic
removeKeepsListeners(o) ==
  LET i == indexOf(characteristics, o)
  IN  /\ IF i # 0
         THEN /\ characteristics' = splice(characteristics, i)
              /\ svcEmitted' = <<configChange>>
         ELSE /\ UNCHANGED characteristics
              /\ svcEmitted' = <<>>
      /\ svcRet' = None
      /\ svcThrew' = NoErr
      /\ UNCHANGED <<optionalCharacteristics, subs>>

\* Service.prototype.removeCharacteristic
removeCharacteristic(o) ==
  LET i == indexOf(characteristics, o)
  IN  /\ IF i # 0
         THEN /\ characteristics' = splice(characteristics, i)
              /\ subs' = [subs EXCEPT ![o] = 0]
              /\ svcEmitted' = <<configChange>>
         ELSE /\ UNCHANGED <<characteristics, subs>>
              /\ svcEmitted' = <<>>
      /\ svcRet' = None
      /\ svcThrew' = NoErr
      /\ UNCHANGED optionalCharacteristics

\* typeof name === 'string' && characteristic.displayName === name, or
\* typeof name === 'function' &&
\*   ((characteristic instanceof name) || (name.UUID === characteristic.UUID))
matches(o, sel) ==
  IF sel.kind = "string"
  THEN CharName(o) = sel.name
  ELSE o.ctor = sel.ctor \/ sel.ctor = o.UUID

\* the first element of the list that matches (None: no element does)
find(list, sel) ==
  IF \E i \in DOMAIN list : matches(list[i], sel)
  THEN list[CHOOSE i \in DOMAIN list :
              matches(list[i], sel) /\ \A j \in 1..(i - 1) : ~matches(list[j], sel)]
  ELSE None

\* a second loop that never finds the requested type
promotesNever(sel) == FALSE

\* the second loop of getCharacteristic: an optional characteristic is of the
\* requested type
promotes(sel) ==
  /\ sel.kind = "function"
  /\ \E i \in DOMAIN optionalCharacteristics :
        LET o == optionalCharacteristics[i] IN o.ctor = sel.ctor \/ sel.ctor = o.UUID

\* a getCharacteristic that makes the instance of the requested type and
\* returns it without adding it
getResultNoAdd(sel) ==
  LET found == find(characteristics, sel)
      added == addResult(characteristics, subs,
                         [kind |-> "function", obj |-> None, ctor |-> sel.ctor])
  IN  IF found # None
      THEN [list |-> characteristics, subs |-> subs, ev |-> <<>>, ret |-> found, threw |-> NoErr]
      ELSE IF sel.kind = "function"
                /\ \E i \in DOMAIN optionalCharacteristics :
                      LET o == optionalCharacteristics[i]
                      IN  o.ctor = sel.ctor \/ sel.ctor = o.UUID
      THEN [list |-> characteristics, subs |-> subs, ev |-> <<>>, ret |-> added.ret, threw |-> NoErr]
      ELSE [list |-> characteristics, subs |-> subs, ev |-> <<>>, ret |-> None, threw |-> NoErr]

\* Service.prototype.getCharacteristic, on the current state: the result of the
\* lookup, with the addCharacteristic(name) of the lazy promotion
getResult(sel) ==
  LET found == find(characteristics, sel)
  IN  IF found # None
      THEN [list |-> characteristics, subs |-> subs, ev |-> <<>>, ret |-> found, threw |-> NoErr]
      ELSE IF promotes(sel)
      THEN addResult(characteristics, subs, [kind |-> "function", obj |-> None, ctor |-> sel.ctor])
      ELSE [list |-> characteristics, subs |-> subs, ev |-> <<>>, ret |-> None, threw |-> NoErr]

\* the lookup can make its new instance
CanGet(sel) ==
  (find(characteristics, sel) = None /\ promotes(sel)) =>
     (HasNew(sel.ctor) \/ conflict(characteristics, sel.ctor))

getCharacteristic(sel) ==
  /\ CanGet(sel)
  /\ LET g == getResult(sel)
     IN  /\ characteristics' = g.list
         /\ subs' = g.subs
         /\ svcEmitted' = g.ev
         /\ svcRet' = g.ret
         /\ svcThrew' = g.threw
  /\ UNCHANGED optionalCharacteristics

\* the values testCharacteristic returns
True  == [None EXCEPT !.copy = "true"]
False == [None EXCEPT !.copy = "false"]

\* a testCharacteristic that looks the characteristic up with
\* getCharacteristic
testCharacteristicByGet(sel) ==
  /\ CanGet(sel)
  /\ LET g == getResult(sel)
     IN  /\ characteristics' = g.list
         /\ subs' = g.subs
         /\ svcEmitted' = g.ev
         /\ svcRet' = IF g.ret # None THEN True ELSE False
         /\ svcThrew' = NoErr
  /\ UNCHANGED optionalCharacteristics

\* Service.prototype.testCharacteristic
testCharacteristic(sel) ==
  /\ svcRet' = IF find(characteristics, sel) # None THEN True ELSE False
  /\ svcEmitted' = <<>>
  /\ svcThrew' = NoErr
  /\ UNCHANGED <<characteristics, optionalCharacteristics, subs>>

\* The 'change' events of characteristic o reach the listeners this Service
\* put on it: each emits one 'characteristic-change'.
bubble(sb, o) == [i \in 1..sb[o] |-> charChange(o)]

\* Service.prototype.setCharacteristic / updateCharacteristic:
\* this.getCharacteristic(name).setValue(value); the call on undefined raises.
\* `chg`: the value written differs from the one cached, so the characteristic
\* emits 'change'.
setCharacteristic(sel, chg) ==
  /\ CanGet(sel)
  /\ LET g == getResult(sel)
     IN  /\ characteristics' = g.list
         /\ subs' = g.subs
         /\ svcEmitted' = g.ev \o (IF g.ret # None /\ chg THEN bubble(g.subs, g.ret) ELSE <<>>)
         /\ svcRet' = None
         /\ svcThrew' = IF g.threw # NoErr THEN g.threw
                       ELSE IF g.ret = None THEN TypeError ELSE NoErr
  /\ UNCHANGED optionalCharacteristics

updateCharacteristic(sel, chg) ==
  /\ CanGet(sel)
  /\ LET g == getResult(sel)
     IN  /\ characteristics' = g.list
         /\ subs' = g.subs
         /\ svcEmitted' = g.ev \o (IF g.ret # None /\ chg THEN bubble(g.subs, g.ret) ELSE <<>>)
         /\ svcRet' = None
         /\ svcThrew' = IF g.threw # NoErr THEN g.threw
                       ELSE IF g.ret = None THEN TypeError ELSE NoErr
  /\ UNCHANGED optionalCharacteristics

\* Service.prototype.addOptionalCharacteristic
addOptionalCharacteristic(arg) ==
  /\ Len(optionalCharacteristics) < MaxOpt
  /\ arg.kind = "function" => HasNew(arg.ctor)
  /\ optionalCharacteristics' =
       Append(optionalCharacteristics,
              IF arg.kind = "function" THEN New(arg.ctor) ELSE arg.obj)
  /\ svcEmitted' = <<>>
  /\ svcRet' = None
  /\ svcThrew' = NoErr
  /\ UNCHANGED <<characteristics, subs>>

\* Service.prototype.toHAP(opt): the objects the toHAP of the characteristics
\* return, in the order of this.characteristics; each has the UUID as type
Service_toHAP ==
  /\ svcHap' = [returned |-> TRUE,
                characteristics |->
                  [i \in DOMAIN characteristics |-> [type |-> characteristics[i].UUID]]]
  /\ svcEmitted' = <<>>
  /\ svcRet' = None
  /\ svcThrew' = NoErr
  /\ UNCHANGED <<characteristics, optionalCharacteristics, subs>>

\* a characteristic's value changes (its setValue/updateValue/getValue is
\* called directly): it emits 'change'
characteristicChanges(o) ==
  /\ svcEmitted' = bubble(subs, o)
  /\ svcRet' = None
  /\ svcThrew' = NoErr
  /\ UNCHANGED <<characteristics, optionalCharacteristics, subs>>

\* new Service(undefined, UUID): no Name characteristic is made
InitService ==
  /\ SvcIdle /\ BridgeIdle /\ HapIdle /\ IdIdle /\ StoIdle
  /\ props = OnProps /\ value = Null
  /\ getL = FALSE /\ setL = FALSE
  /\ reqs = <<>>
  /\ emitted = <<>> /\ called = <<>> /\ threw = FALSE

\* a step of the Service: the other objects are not touched
Svc(A) == A /\ svcHap' = NoSvcHap /\ UNCHANGED <<cellVars, brVars, hapVars, idVars, stoVars, histVars>>

NextService ==
  \/ \E arg \in CharArgs : Svc(addCharacteristic(arg))
  \/ \E o \in CharObjs : Svc(removeCharacteristic(o))
  \/ \E sel \in Selectors : Svc(getCharacteristic(sel))
  \/ \E sel \in Selectors : Svc(testCharacteristic(sel))
  \/ \E sel \in Selectors, chg \in BOOLEAN : Svc(setCharacteristic(sel, chg))
  \/ \E sel \in Selectors, chg \in BOOLEAN : Svc(updateCharacteristic(sel, chg))
  \/ \E arg \in CharArgs : Svc(addOptionalCharacteristic(arg))
  \/ \E o \in CharObjs : Svc(characteristicChanges(o))
  \/ Service_toHAP /\ UNCHANGED <<cellVars, brVars, hapVars, idVars, stoVars, histVars>>

SpecService == InitService /\ [][NextService]_vars

\* the lookups of a Service, with the method called last on record
Look(call, sel, A) ==
  /\ A
  /\ svcCall' = [method |-> call, name |-> sel]
  /\ IF call = "toHAP" THEN TRUE ELSE svcHap' = NoSvcHap
  /\ UNCHANGED <<cellVars, brVars, hapVars, idVars, stoVars, lastUpdate, svcArg, brArg>>

NextLookup ==
  \/ \E arg \in CharArgs : Look("addCharacteristic", NoSel, addCharacteristic(arg))
  \/ \E o \in CharObjs : Look("removeCharacteristic", NoSel, removeCharacteristic(o))
  \/ \E sel \in Selectors : Look("getCharacteristic", sel, getCharacteristic(sel))
  \/ \E sel \in Selectors : Look("testCharacteristic", NoSel, testCharacteristic(sel))
  \/ \E arg \in CharArgs :
       Look("addOptionalCharacteristic", NoSel, addOptionalCharacteristic(arg))
  \/ Look("toHAP", NoSel, Service_toHAP)

SpecLookup == InitService /\ [][NextLookup]_vars

\* the 'change' events a characteristic emits
Changes ==
  {changeEvent(Bool(FALSE), Bool(TRUE), x) : x \in Ctxs}
    \cup {changeEvent(Bool(TRUE), Bool(FALSE), CbCtx)}

\* lib/util/clone: clone(change, {characteristic: characteristic}) is a new
\* object with the fields of change and the field characteristic; it is
\* emitted as 'characteristic-change'
clone(change, o) ==
  [type |-> "characteristic-change", characteristic |-> o,
   oldValue |-> change.oldValue, newValue |-> change.newValue,
   context |-> change.context]

\* characteristic o emits 'change' with the event `change`: every listener
\* this Service put on o in addCharacteristic runs and emits one
\* 'characteristic-change'
emitsChange(o, change) ==
  /\ svcEmitted' = [i \in 1..subs[o] |-> clone(change, o)]
  /\ svcRet' = None
  /\ svcThrew' = NoErr
  /\ UNCHANGED <<characteristics, optionalCharacteristics, subs>>

\* the membership of a Service: a step about characteristic o, with the
\* method and o on record
Member(call, o, change, A) ==
  /\ A
  /\ svcCall' = [method |-> call, name |-> NoSel]
  /\ svcArg' = [obj |-> o, at |-> indexOf(characteristics, o), change |-> change]
  /\ svcHap' = NoSvcHap
  /\ UNCHANGED <<cellVars, brVars, hapVars, idVars, stoVars, lastUpdate, brArg>>

NextMembers ==
  \/ \E arg \in CharArgs :
       Member("addCharacteristic", arg.obj, NoChange, addCharacteristic(arg))
  \/ \E o \in CharObjs :
       Member("removeCharacteristic", o, NoChange, removeCharacteristic(o))
  \/ \E k \in Ctors :
       Member("getCharacteristic", None, NoChange,
              getCharacteristic([kind |-> "function", ctor |-> k, name |-> <<0, 0>>]))
  \/ \E arg \in CharArgs :
       Member("addOptionalCharacteristic", arg.obj, NoChange,
              addOptionalCharacteristic(arg))
  \/ \E o \in CharObjs, change \in Changes : Member("change", o, change, emitsChange(o, change))

SpecMembers == InitService /\ [][NextMembers]_vars

-----------------------------------------------------------------------------
(* Service: a characteristic with 'get' and 'set' listeners as a member *)

\* the Characteristic whose value protocol is followed (Characteristic.On),
\* and the characteristics added and removed
TheCell == [ctor |-> 1, UUID |-> 1, copy |-> "a"]
Owned   == {TheCell, [ctor |-> 2, UUID |-> 2, copy |-> "a"]}

\* characteristic.removeAllListeners(), called without an event name: the
\* listeners of every event of the characteristic are removed, those of 'get'
\* and 'set' with those of 'change'
removeAllListeners ==
  /\ getL' = FALSE /\ setL' = FALSE
  /\ emitted' = <<>> /\ called' = <<>> /\ threw' = FALSE
  /\ UNCHANGED <<props, value, reqs>>

\* Service.prototype.removeCharacteristic(o), with what it does to o
removeOwned(o) ==
  /\ removeCharacteristic(o)
  /\ IF o = TheCell /\ indexOf(characteristics, o) # 0
     THEN removeAllListeners
     ELSE UNCHANGED cellVars

\* a step of the Service or of its characteristic
Own(A) == A /\ svcHap' = NoSvcHap /\ UNCHANGED <<brVars, hapVars, idVars, stoVars, histVars>>

\* a step of the characteristic alone
OwnCell(A) ==
  Own(A /\ UNCHANGED <<characteristics, optionalCharacteristics, subs,
                       svcEmitted, svcRet, svcThrew>>)

NextOwned ==
  \/ OwnCell(onGet)
  \/ OwnCell(onSet)
  \/ \E x \in Ctxs : OwnCell(getValue(TRUE, x))
  \/ \E v \in InVals, x \in Ctxs : OwnCell(setValue(v, TRUE, x, NoVal))
  \/ \E r \in 1..MaxReq, a \in ResolveArgs : OwnCell(resolve(r, a[1], a[2], NoVal))
  \/ \E o \in Owned :
       Own(addCharacteristic([kind |-> "instance", obj |-> o, ctor |-> o.ctor])
             /\ UNCHANGED cellVars)
  \/ \E o \in Owned : Own(removeOwned(o))

SpecOwned == InitOn /\ [][NextOwned]_vars

-----------------------------------------------------------------------------
(* Service: the constructors of the standard Service types *)

\* Characteristic.Name is constructor 1; its props, and the selector of it
NameCtor  == 1
NameProps == Props("string", Null, Null, NoStep, {"pr"})
NameSel   == [kind |-> "function", ctor |-> NameCtor, name |-> <<0, 0>>]

\* The standard types, by what their constructors add after Service.call:
\* the required characteristics, in order, and the optional ones.
ServiceTypes ==
  {[name |-> "Service.AccessoryInformation", required |-> <<2, NameCtor>>, optional |-> <<>>],
   [name |-> "Service.TunneledBTLEAccessoryService", required |-> <<NameCtor, 2>>, optional |-> <<>>],
   [name |-> "Service.Lightbulb", required |-> <<2>>, optional |-> <<NameCtor>>],
   [name |-> "Service.BridgingState", required |-> <<2>>, optional |-> <<>>]}
TypeNames == {t.name : t \in ServiceTypes}

\* the displayName arguments: undefined, "" and a name of four characters
DisplayNames == {Null, Str(0), Str(4)}

\* if (displayName)
truthy(s) == s # Null /\ s # Str(0)

\* the Service under construction: nothing in it yet
Blank ==
  [list |-> <<>>, opt |-> <<>>, subs |-> [o \in CharObjs |-> 0], ev |-> <<>>,
   threw |-> NoErr, value |-> Null, made |-> {}]

\* new characteristic(): an instance that did not exist
Fresh(k, made) == CHOOSE o \in CharObjs : o.ctor = k /\ o.UUID = k /\ o \notin made

\* this.addCharacteristic(Characteristic.k) in a constructor; after a throw
\* nothing further runs
addNew(st, k) ==
  LET o == Fresh(k, st.made)
      a == addResult(st.list, st.subs, [kind |-> "instance", obj |-> o, ctor |-> k])
  IN  IF st.threw # NoErr THEN st
      ELSE [st EXCEPT !.list = a.list, !.subs = a.subs, !.ev = @ \o a.ev,
                      !.threw = a.threw, !.made = @ \cup {o},
                      !.value = IF k = NameCtor /\ a.threw = NoErr
                                THEN getDefaultValue(NameProps) ELSE @]

\* this.addOptionalCharacteristic(Characteristic.k) in a constructor
addNewOptional(st, k) ==
  LET o == Fresh(k, st.made)
  IN  IF st.threw # NoErr THEN st
      ELSE [st EXCEPT !.opt = Append(@, o), !.made = @ \cup {o}]

\* if (displayName) {
\*   var nameCharacteristic = this.getCharacteristic(Characteristic.Name) ||
\*                            this.addCharacteristic(Characteristic.Name);
\*   nameCharacteristic.setValue(displayName); }
nameIt(st, displayName) ==
  LET found == find(st.list, NameSel)
      with  == IF found # None THEN st ELSE addNew(st, NameCtor)
      o     == find(with.list, NameSel)
      w     == store(with.value, displayName, NoVal, NameProps)
  IN  IF ~truthy(displayName) THEN st
      ELSE [with EXCEPT !.value = w.value,
                        !.ev = @ \o (IF w.ev # <<>> THEN bubble(with.subs, o) ELSE <<>>)]

RECURSIVE addEach(_, _)
addEach(st, ks) ==
  IF ks = <<>> THEN st ELSE addEach(addNew(st, Head(ks)), Tail(ks))

RECURSIVE addOptionalEach(_, _)
addOptionalEach(st, ks) ==
  IF ks = <<>> THEN st ELSE addOptionalEach(addNewOptional(st, Head(ks)), Tail(ks))

\* new t(displayName): Service.call(this, displayName, UUID, subtype), then
\* the required and the optional characteristics of the type
construct(t, displayName) ==
  LET st == addOptionalEach(addEach(nameIt(Blank, displayName), t.required), t.optional)
  IN  /\ characteristics' = st.list
      /\ optionalCharacteristics' = st.opt
      /\ subs' = st.subs
      /\ svcEmitted' = st.ev
      /\ svcRet' = None
      /\ svcThrew' = st.threw
      /\ value' = st.value
      /\ svcCall' = [method |-> t.name, name |-> NoSel]
      /\ lastUpdate' = displayName

\* the Service was made: the constructor returned
Built == svcCall.method # "new" /\ svcThrew = NoErr

\* the Name characteristic of the Service, if it has one
HasName == find(characteristics, NameSel) # None

\* service.getCharacteristic(Characteristic.Name).setValue(v) on a Service
\* that has the characteristic
setName(v) ==
  LET w == store(value, v, NoVal, NameProps)
  IN  /\ HasName
      /\ value' = w.value
      /\ svcEmitted' = IF w.ev # <<>>
                       THEN bubble(subs, find(characteristics, NameSel)) ELSE <<>>
      /\ svcRet' = None
      /\ svcThrew' = NoErr
      /\ UNCHANGED <<characteristics, optionalCharacteristics, subs>>

\* a lookup: the Name characteristic it makes has the default value
lookup(sel) ==
  /\ getCharacteristic(sel)
  /\ value' = IF ~HasName /\ find(characteristics', NameSel) # None
              THEN getDefaultValue(NameProps) ELSE value

\* a step of the constructed Service, with the method on record
Made(call, sel, A) ==
  /\ A
  /\ svcCall' = [method |-> call, name |-> sel]
  /\ svcHap' = NoSvcHap
  /\ UNCHANGED <<props, getL, setL, reqs, emitted, called, threw>>
  /\ UNCHANGED <<brVars, hapVars, idVars, stoVars, lastUpdate, svcArg, brArg>>

InitNew ==
  /\ SvcIdle /\ BridgeIdle /\ HapIdle /\ IdIdle /\ StoIdle
  /\ props = NameProps /\ value = Null
  /\ getL = FALSE /\ setL = FALSE
  /\ reqs = <<>>
  /\ emitted = <<>> /\ called = <<>> /\ threw = FALSE

NextNew ==
  \/ \E t \in ServiceTypes, n \in DisplayNames :
       /\ construct(t, n)
       /\ svcHap' = NoSvcHap
       /\ UNCHANGED <<props, getL, setL, reqs, emitted, called, threw>>
       /\ UNCHANGED <<brVars, hapVars, idVars, stoVars, svcArg, brArg>>
  \/ \E sel \in Selectors : Built /\ Made("getCharacteristic", sel, lookup(sel))
  \/ \E sel \in Selectors :
       Built /\ Made("testCharacteristic", sel, testCharacteristic(sel) /\ UNCHANGED value)
  \/ \E v \in DisplayNames : Built /\ Made("setValue", NoSel, setName(v))

SpecNew == InitNew /\ [][NextNew]_vars

-----------------------------------------------------------------------------
(* Service: the IDs of a Service and of its characteristics *)

AccessoryName == "acc"
NoChar        == 0       \* getIID called without a characteristic UUID

\* a key that leaves the subtype out
KeyNoSubtype(UUID, subtype, characteristicUUID) ==
  <<AccessoryName, UUID, NoSubtype, characteristicUUID>>

\* the arguments of identifierCache.getIID(accessoryName, serviceUUID,
\* serviceSubtype[, characteristicUUID])
Key(UUID, subtype, characteristicUUID) ==
  <<AccessoryName, UUID, subtype, characteristicUUID>>

\* a Service that has no reserved ID
reservedNever(UUID) == FALSE

\* if (this.UUID === '0000003E-0000-1000-8000-0026BB765291')
reserved(UUID) == UUID = AccessoryInformation

\* IdentifierCache: a key keeps the IID it was given; a new key is given the
\* next integer, which no other key has.  The IID of the n-th key issued:
iidOf(cache, key) == firstIID - 1 + CHOOSE n \in DOMAIN cache : cache[n] = key

\* the cache after getIID(key)
getIID(cache, key) ==
  IF \E n \in DOMAIN cache : cache[n] = key THEN cache ELSE Append(cache, key)

\* the cache after the calls getIID(keys[1]), getIID(keys[2]), ...
RECURSIVE getIIDs(_, _)
getIIDs(cache, keys) ==
  IF keys = <<>> THEN cache ELSE getIIDs(getIID(cache, Head(keys)), Tail(keys))

\* Service.prototype._assignIDs on Service i, with
\* Characteristic.prototype._assignID on each of this.characteristics
assignIDs(i) ==
  LET s     == services[i]
      own   == IF reserved(s.UUID) THEN <<>> ELSE <<Key(s.UUID, s.subtype, NoChar)>>
      cells == [n \in DOMAIN s.characteristics |->
                  Key(s.UUID, s.subtype, s.characteristics[n])]
      cache == getIIDs(issued, own \o cells)
  IN  /\ asked' = own \o cells
      /\ issued' = cache
      /\ svcIID' = [svcIID EXCEPT ![i] = IF reserved(s.UUID) THEN 1 ELSE iidOf(cache, own[1])]
      /\ charIID' = [charIID EXCEPT ![i] =
                       [n \in DOMAIN s.characteristics |-> iidOf(cache, cells[n])]]
      /\ UNCHANGED <<services, optIID, firstIID>>

\* new Accessory with its Services, none of which has an iid yet, and an
\* IdentifierCache that has issued nothing and starts at 1 or at 2
InitIDs ==
  /\ SvcIdle /\ BridgeIdle /\ HapIdle /\ StoIdle
  /\ props = OnProps /\ value = Null
  /\ getL = FALSE /\ setL = FALSE
  /\ reqs = <<>>
  /\ emitted = <<>> /\ called = <<>> /\ threw = FALSE
  /\ services \in Layouts
  /\ svcIID = [i \in 1..NSvc |-> 0]
  /\ charIID = [i \in 1..NSvc |-> [n \in DOMAIN services[i].characteristics |-> 0]]
  /\ optIID = [i \in 1..NSvc |-> [n \in DOMAIN services[i].optionalCharacteristics |-> 0]]
  /\ issued = <<>>
  /\ firstIID \in {1, 2}
  /\ asked = <<>>

Ids(A) == A /\ UNCHANGED <<cellVars, svcVars, brVars, hapVars, histVars, stoVars>>

NextIDs == \E i \in 1..NSvc : Ids(assignIDs(i))

SpecIDs == InitIDs /\ [][NextIDs]_vars

\* Service i gets a characteristic after construction: addCharacteristic(u),
\* or the getCharacteristic(u) that makes an optional characteristic a member
\* by addCharacteristic.  The new Characteristic has this.iid = null.
addLate(i, u) ==
  /\ \A n \in DOMAIN services[i].characteristics : services[i].characteristics[n] # u
  /\ services' = [services EXCEPT ![i].characteristics = Append(@, u)]
  /\ charIID' = [charIID EXCEPT ![i] = Append(@, 0)]
  /\ UNCHANGED <<svcIID, optIID, issued, firstIID, asked>>

\* Service.prototype.toHAP of Service i: { iid: this.iid, type: this.UUID,
\* characteristics: [...] }, each characteristic with iid: this.iid and type
toHAPOf(i) ==
  /\ svcHap' = [returned |-> TRUE, iid |-> svcIID[i], type |-> services[i].UUID,
                characteristics |->
                  [n \in DOMAIN services[i].characteristics |->
                     [iid |-> charIID[i][n], type |-> services[i].characteristics[n]]]]
  /\ UNCHANGED idVars

\* a step about Service i, with the method and i on record
Late(call, i, A) ==
  /\ A
  /\ svcCall' = [method |-> call, name |-> NoSel]
  /\ svcArg' = [obj |-> None, at |-> i, change |-> NoChange]
  /\ IF call = "toHAP" THEN TRUE ELSE svcHap' = NoSvcHap
  /\ UNCHANGED <<cellVars, brVars, hapVars, lastUpdate, brArg, stoVars>>
  /\ UNCHANGED <<characteristics, optionalCharacteristics, subs, svcEmitted, svcRet, svcThrew>>

\* the Accessory's Services: IDs are assigned, characteristics are added,
\* toHAP is called, in any order
NextLate ==
  \/ \E i \in 1..NSvc : Late("_assignIDs", i, assignIDs(i))
  \/ \E i \in 1..NSvc, u \in 1..2 : Late("addCharacteristic", i, addLate(i, u))
  \/ \E i \in 1..NSvc : Late("toHAP", i, toHAPOf(i))

\* every Service but the first starts with one characteristic; the
\* IdentifierCache starts at 2
InitLate ==
  /\ InitIDs
  /\ firstIID = 2
  /\ \A i \in 2..NSvc : services[i].characteristics = <<1>>

SpecLate == InitLate /\ [][NextLate]_vars

-----------------------------------------------------------------------------
(* Bridge *)

\* the errors the Bridge raises
CannotBridge == "Cannot Bridge another Bridge!"
SameAccUUID  == "Cannot add a bridged Accessory with the same UUID as another bridged Accessory"
CannotFind   == "Cannot find the bridged Accessory to remove."

\* accessory.reachable and accessory.category, which no call of the Bridge changes
reachable(a) == accReachable[a]
category(a)  == accCategory[a]

\* the Bridge and the accessories, as one value
Cur ==
  [list |-> bridgedAccessories, bridged |-> bridged, hasBS |-> hasBS,
   seeded |-> seeded, lis |-> lis, recomputes |-> 0, configured |-> <<>>,
   handled |-> <<>>, threw |-> NoErr]

\* this._updateConfiguration(), which looks at this.bridgedAccessories
updateConfiguration(st) == [st EXCEPT !.recomputes = @ + 1, !.configured = st.list]

accConflictNever(list, UUID) == FALSE

\* the "check for UUID conflict" loop of addBridgedAccessory
accConflict(list, UUID) == \E i \in DOMAIN list : AccUUID(list[i]) = UUID

\* accessory c emits 'service-characteristic-change' n times: each listener
\* the Bridge put on c calls
\* this._handleCharacteristicChange(clone(change, {accessory: accessory}))
relay(st, c, n) == [st EXCEPT !.handled = @ \o [k \in 1..(n * st.lis[c]) |-> c]]

\* accessory.addService(Service.BridgingState) when getService finds none,
\* then setValue on its AccessoryIdentifier, Reachable and Category; a
\* value that differs from the one the service has makes the accessory emit
\* 'service-characteristic-change'
seedBridgingState(st, a) ==
  LET old == st.seeded[a]
      new == [identifier |-> AccUUID(a),
              reachable  |-> reachable(a),
              category   |-> category(a)]
      n   == (IF old.identifier # new.identifier THEN 1 ELSE 0)
               + (IF old.reachable # new.reachable THEN 1 ELSE 0)
               + (IF old.category # new.category THEN 1 ELSE 0)
  IN  [relay(st, a, n) EXCEPT !.hasBS[a] = TRUE, !.seeded[a] = new]

\* an addBridgedAccessory that sets the accessory up before it checks it
addOneSetUpFirst(st, a, deferUpdate) ==
  LET up == [seedBridgingState(st, a) EXCEPT !.bridged[a] = TRUE]
  IN  IF isBridge(a) THEN [up EXCEPT !.threw = CannotBridge]
      ELSE IF accConflict(st.list, AccUUID(a)) THEN [up EXCEPT !.threw = SameAccUUID]
      ELSE LET added == [up EXCEPT !.lis[a] = @ + 1, !.list = Append(@, a)]
           IN  IF deferUpdate THEN added ELSE updateConfiguration(added)

\* an addBridgedAccessory that sets the values of the BridgingState service
\* only when it makes the service
addOneSeedOnce(st, a, deferUpdate) ==
  IF isBridge(a) THEN [st EXCEPT !.threw = CannotBridge]
  ELSE IF accConflict(st.list, AccUUID(a)) THEN [st EXCEPT !.threw = SameAccUUID]
  ELSE LET up    == IF st.hasBS[a] THEN st ELSE seedBridgingState(st, a)
           added == [up EXCEPT !.lis[a] = @ + 1,
                               !.bridged[a] = TRUE,
                               !.list = Append(@, a)]
       IN  IF deferUpdate THEN added ELSE updateConfiguration(added)

\* Bridge.prototype.addBridgedAccessory, from the state st
addOne(st, a, deferUpdate) ==
  IF isBridge(a) THEN [st EXCEPT !.threw = CannotBridge]
  ELSE IF accConflict(st.list, AccUUID(a)) THEN [st EXCEPT !.threw = SameAccUUID]
  ELSE LET added == [seedBridgingState(st, a) EXCEPT !.lis[a] = @ + 1,
                                                     !.bridged[a] = TRUE,
                                                     !.list = Append(@, a)]
       IN  IF deferUpdate THEN added ELSE updateConfiguration(added)

\* the first index whose accessory has the UUID (0: none)
indexOfUUID(list, UUID) ==
  IF accConflict(list, UUID)
  THEN CHOOSE i \in DOMAIN list :
         AccUUID(list[i]) = UUID /\ \A j \in 1..(i - 1) : AccUUID(list[j]) # UUID
  ELSE 0

\* a removeBridgedAccessory that removes the listeners before it looks for
\* the accessory
removeOneUnsubscribeFirst(st, a, deferUpdate) ==
  IF isBridge(a) THEN [st EXCEPT !.threw = CannotBridge]
  ELSE LET i == indexOfUUID(st.list, AccUUID(a))
       IN  IF i = 0
           THEN [st EXCEPT !.threw = CannotFind, !.lis[a] = 0]
           ELSE LET removed == [st EXCEPT !.list = splice(@, i), !.lis[a] = 0]
                IN  IF deferUpdate THEN removed ELSE updateConfiguration(removed)

\* Bridge.prototype.removeBridgedAccessory, from the state st: the accessory
\* with the UUID leaves the list, and the listeners of the one that was passed
\* are removed
removeOne(st, a, deferUpdate) ==
  IF isBridge(a) THEN [st EXCEPT !.threw = CannotBridge]
  ELSE LET i == indexOfUUID(st.list, AccUUID(a))
       IN  IF i = 0
           THEN [st EXCEPT !.threw = CannotFind]
           ELSE LET removed == [st EXCEPT !.list = splice(@, i), !.lis[a] = 0]
                IN  IF deferUpdate THEN removed ELSE updateConfiguration(removed)

\* a loop whose calls of addBridgedAccessory do not defer the update
RECURSIVE addAllEach(_, _)
addAllEach(st, accessories) ==
  IF accessories = <<>> \/ st.threw # NoErr THEN st
  ELSE addAllEach(addOne(st, Head(accessories), FALSE), Tail(accessories))

\* the loop of addBridgedAccessories: an error ends it
RECURSIVE addAll(_, _)
addAll(st, accessories) ==
  IF accessories = <<>> \/ st.threw # NoErr THEN st
  ELSE addAll(addOne(st, Head(accessories), TRUE), Tail(accessories))

\* the loop of removeBridgedAccessories
RECURSIVE removeAll(_, _)
removeAll(st, accessories) ==
  IF accessories = <<>> \/ st.threw # NoErr THEN st
  ELSE removeAll(removeOne(st, Head(accessories), TRUE), Tail(accessories))

\* the call named call ends in the state st
Ends(call, st) ==
  /\ \A a \in Accs : st.lis[a] <= MaxLis
  /\ bridgedAccessories' = st.list
  /\ bridged' = st.bridged
  /\ hasBS' = st.hasBS
  /\ seeded' = st.seeded
  /\ lis' = st.lis
  /\ recomputes' = st.recomputes
  /\ configured' = st.configured
  /\ handled' = st.handled
  /\ UNCHANGED <<accReachable, accCategory>>
  /\ brCall' = call
  /\ brThrew' = st.threw

addBridgedAccessory(a, deferUpdate) ==
  Ends("addBridgedAccessory", addOne(Cur, a, deferUpdate))

addBridgedAccessories(accessories) ==
  LET st == addAll(Cur, accessories)
  IN  Ends("addBridgedAccessories",
           IF st.threw = NoErr THEN updateConfiguration(st) ELSE st)

removeBridgedAccessory(a, deferUpdate) ==
  Ends("removeBridgedAccessory", removeOne(Cur, a, deferUpdate))

removeBridgedAccessories(accessories) ==
  LET st == removeAll(Cur, accessories)
  IN  Ends("removeBridgedAccessories",
           IF st.threw = NoErr THEN updateConfiguration(st) ELSE st)

\* the arrays the bulk calls are passed: every pair of accessories
AccLists == {<<a, b>> : a \in Accs, b \in Accs}

\* new Bridge(displayName, serialNumber)
InitBridge ==
  /\ SvcIdle /\ BridgeIdle /\ HapIdle /\ IdIdle /\ StoIdle
  /\ props = OnProps /\ value = Null
  /\ getL = FALSE /\ setL = FALSE
  /\ reqs = <<>>
  /\ emitted = <<>> /\ called = <<>> /\ threw = FALSE

\* a step of the Bridge: the other objects are not touched
Br(A) == A /\ UNCHANGED <<cellVars, svcVars, hapVars, idVars, stoVars, histVars>>

NextBridge ==
  \/ \E a \in Accs, d \in BOOLEAN : Br(addBridgedAccessory(a, d))
  \/ \E l \in AccLists : Br(addBridgedAccessories(l))
  \/ \E a \in Accs, d \in BOOLEAN : Br(removeBridgedAccessory(a, d))
  \/ \E l \in AccLists : Br(removeBridgedAccessories(l))

SpecBridge == InitBridge /\ [][NextBridge]_vars

\* The fields of an accessory change: accessory.reachable = r and
\* accessory.category = c, assigned by whoever owns the accessory.
Categories == {1, 2}

setReachable(a, r) ==
  /\ accReachable' = [accReachable EXCEPT ![a] = r]
  /\ recomputes' = 0
  /\ configured' = <<>>
  /\ brCall' = "reachable"
  /\ brThrew' = NoErr
  /\ handled' = <<>>
  /\ UNCHANGED <<bridgedAccessories, bridged, hasBS, seeded, lis, accCategory>>

setCategory(a, c) ==
  /\ accCategory' = [accCategory EXCEPT ![a] = c]
  /\ recomputes' = 0
  /\ configured' = <<>>
  /\ brCall' = "category"
  /\ brThrew' = NoErr
  /\ handled' = <<>>
  /\ UNCHANGED <<bridgedAccessories, bridged, hasBS, seeded, lis, accReachable>>

\* the accessories of the exploration of the BridgingState values: one of
\* each of the first two UUIDs, and the Bridge; the fields of the first
\* change
SeedAccs == {1, 3, NAcc}

NextSeed ==
  \/ \E a \in SeedAccs, d \in BOOLEAN : Br(addBridgedAccessory(a, d))
  \/ \E a \in SeedAccs, d \in BOOLEAN : Br(removeBridgedAccessory(a, d))
  \/ \E r \in BOOLEAN : Br(setReachable(1, r))
  \/ \E c \in Categories : Br(setCategory(1, c))

SpecSeed == InitBridge /\ [][NextSeed]_vars

\* a step of the Bridge about accessory a (0: an array of accessories), with
\* a and the deferUpdate argument on record
Kid(a, d, A) ==
  /\ A
  /\ brArg' = [accessory |-> a, deferUpdate |-> d]
  /\ UNCHANGED <<cellVars, svcVars, hapVars, idVars, stoVars, lastUpdate, svcCall, svcArg>>

\* the calls of the Bridge, with the deferUpdate argument on record
NextRecompute ==
  \/ \E a \in Accs, d \in BOOLEAN : Kid(0, d, addBridgedAccessory(a, d))
  \/ \E l \in AccLists : Kid(0, FALSE, addBridgedAccessories(l))
  \/ \E a \in Accs, d \in BOOLEAN : Kid(0, d, removeBridgedAccessory(a, d))
  \/ \E l \in AccLists : Kid(0, FALSE, removeBridgedAccessories(l))

SpecRecompute == InitBridge /\ [][NextRecompute]_vars

\* accessory c emits 'service-characteristic-change': the listeners of
\* addBridgedAccessory on c run
characteristicChange(c) ==
  Ends("service-characteristic-change", relay(Cur, c, 1))

\* accessory c emits 'service-configurationChange': each listener of
\* addBridgedAccessory on c calls this._updateConfiguration()
RECURSIVE updateConfigurations(_, _)
updateConfigurations(st, n) ==
  IF n = 0 THEN st ELSE updateConfigurations(updateConfiguration(st), n - 1)

configurationChange(c) ==
  Ends("service-configurationChange", updateConfigurations(Cur, lis[c]))

\* the accessories of the exploration of the listeners: two objects of one
\* UUID, one of another UUID, and the Bridge
Kids == {1, 2, 3, NAcc}

NextChildren ==
  \/ \E a \in Kids, d \in BOOLEAN : Kid(a, FALSE, addBridgedAccessory(a, d))
  \/ \E a \in Kids, d \in BOOLEAN : Kid(a, FALSE, removeBridgedAccessory(a, d))
  \/ \E c \in Kids : Kid(c, FALSE, characteristicChange(c))
  \/ \E c \in Kids : Kid(c, FALSE, configurationChange(c))

SpecChildren == InitBridge /\ [][NextChildren]_vars

-----------------------------------------------------------------------------
(* Storage: get and set through the queue *)

\* the Storage as one value: the fields sync reads and writes, and the fs
\* calls in flight
Sto ==
  [data |-> data, queue |-> queue, lock |-> lock, reads |-> reads, writing |-> writing]

\* var current = this.queue.shift(); for 'get': fs.readFile(...); for 'set':
\* this.lock = true; this.data[key] = value;
\* fs.writeFile(this.filename, JSON.stringify(this.data), ...).
\* tbl: the tasks by number; f: what the file holds now.
take(st, tbl, f) ==
  LET id == Head(st.queue)
      t  == tbl[id]
      d  == [st.data EXCEPT ![t.key] = t.value]
  IN  IF t.action = "get"
      THEN [st EXCEPT !.queue = Tail(@),
                      !.reads = @ \cup {[task |-> id, seen |-> {f}]}]
      ELSE [st EXCEPT !.queue = Tail(@), !.lock = TRUE, !.data = d,
                      !.writing = [task |-> id, content |-> File(d)]]

\* Storage.prototype.sync after the push: if (this.lock) return; ...
sync(st, tbl, f) == IF st.lock THEN st ELSE take(st, tbl, f)

\* the fields of the Storage after a step
Becomes(st) ==
  /\ data' = st.data
  /\ queue' = st.queue
  /\ lock' = st.lock
  /\ reads' = st.reads
  /\ writing' = st.writing

\* Storage.prototype.get(key, callback): this.sync(['get', key, callback])
get(key) ==
  /\ Len(tasks) < MaxCalls
  /\ LET id  == Len(tasks) + 1
         tbl == Append(tasks, [action |-> "get", key |-> key, value |-> 0,
                               want |-> settled[key]])
     IN  /\ tasks' = tbl
         /\ Becomes(sync([Sto EXCEPT !.queue = Append(@, id)], tbl, file))
  /\ answered' = Append(answered, NoAnswer)
  /\ UNCHANGED <<file, settled>>

\* Storage.prototype.set(key, value, callback):
\* this.sync(['set', key, value, callback])
set(key, val) ==
  /\ Len(tasks) < MaxCalls
  /\ LET id  == Len(tasks) + 1
         old == [i \in DOMAIN tasks |->
                   IF tasks[i].action = "get" /\ tasks[i].key = key
                      /\ answered[i] = NoAnswer
                   THEN [tasks[i] EXCEPT !.want = 0] ELSE tasks[i]]
         tbl == Append(old, [action |-> "set", key |-> key, value |-> val, want |-> 0])
     IN  /\ tasks' = tbl
         /\ Becomes(sync([Sto EXCEPT !.queue = Append(@, id)], tbl, file))
  /\ answered' = Append(answered, NoAnswer)
  /\ settled' = [settled EXCEPT ![key] = 0]
  /\ UNCHANGED file

\* the callback of fs.readFile for the read r, with the content c the file
\* had at some moment of the read:
\*   try { self.data = JSON.parse(content); } catch (e) { err = e; }
\*   callback && callback(err, self.data[key]);
readDone(r, c) ==
  LET d == IF c = NoFile THEN data ELSE c.obj
  IN  /\ r \in reads /\ c \in r.seen
      /\ data' = d
      /\ reads' = reads \ {r}
      /\ answered' = [answered EXCEPT ![r.task] =
                        [err |-> c = NoFile, val |-> d[tasks[r.task].key]]]
      /\ UNCHANGED <<queue, lock, file, writing, tasks, settled>>

\* the callback of fs.writeFile, the file holding the content written:
\*   self.lock = !true; callback && callback(err, self.data);
\*   if (self.queue.length) return self.sync();
writeDone ==
  LET id   == writing.task
      t    == tasks[id]
      f    == writing.content
      open == [Sto EXCEPT !.lock = FALSE, !.writing = NoWrite,
                          !.reads = {[r EXCEPT !.seen = @ \cup {f}] : r \in reads}]
  IN  /\ writing # NoWrite
      /\ file' = f
      /\ Becomes(IF queue # <<>> THEN sync(open, tasks, f) ELSE open)
      /\ answered' = [answered EXCEPT ![id] = [err |-> FALSE, val |-> 0]]
      /\ settled' = IF \E i \in DOMAIN tasks :
                         /\ i # id /\ answered[i] = NoAnswer
                         /\ tasks[i].action = "set" /\ tasks[i].key = t.key
                    THEN settled
                    ELSE [settled EXCEPT ![t.key] = t.value]
      /\ UNCHANGED tasks

\* new Storage('homekit.json'), the file missing or holding {}
InitStorage ==
  /\ SvcIdle /\ BridgeIdle /\ HapIdle /\ IdIdle
  /\ props = OnProps /\ value = Null
  /\ getL = FALSE /\ setL = FALSE
  /\ reqs = <<>>
  /\ emitted = <<>> /\ called = <<>> /\ threw = FALSE
  /\ StoNew
  /\ file \in {NoFile, File(EmptyObj)}

\* a step of the Storage: the other objects are not touched
Stored(A) == A /\ UNCHANGED <<cellVars, svcVars, brVars, hapVars, idVars, histVars>>

ReadDone  == \E r \in reads : \E c \in r.seen : Stored(readDone(r, c))
WriteDone == Stored(writeDone)

NextStorage ==
  \/ \E k \in Keys : Stored(get(k))
  \/ \E k \in Keys, v \in Values : Stored(set(k, v))
  \/ ReadDone
  \/ WriteDone

SpecStorage == InitStorage /\ [][NextStorage]_vars

\* every fs.readFile and fs.writeFile in flight completes; nobody has to
\* call get or set
SpecStorageFair == SpecStorage /\ WF_vars(ReadDone) /\ WF_vars(WriteDone)

-----------------------------------------------------------------------------
(* Characteristic.prototype.toHAP *)

\* the numbers of the exploration, in hundredths: -1, -0.75, ..., 0.75, 1
Grid == {25 * k : k \in -MaxQ..MaxQ}

\* minStep: null, 1, 0.1, 0.01 and 1e-7
MinSteps ==
  {NoStep, [frac |-> 0, exp |-> 0], [frac |-> 1, exp |-> 0],
   [frac |-> 2, exp |-> 0], [frac |-> 0, exp |-> -7]}

Max(a, b) == IF a >= b THEN a ELSE b

\* decimalPlaces(num): the digits after the point of '' + num, less its exponent
decimalPlaces(num) == Max(0, num.frac - num.exp)

\* what a value is as an operand of < and >: null is 0, true is 1, and an
\* array, which is empty, is 0
ToNumber(v) ==
  IF v.t \in {"null", "array"} THEN 0 ELSE IF v.t = "bool" THEN 100 * v.v ELSE v.v

\* a < b and a > b of JavaScript: false when an operand is NaN
lt(a, b) == a # NaN /\ b # NaN /\ ToNumber(a) < ToNumber(b)
gt(a, b) == a # NaN /\ b # NaN /\ ToNumber(a) > ToNumber(b)

\* parseInt(value): the integer the decimal string of a number starts with,
\* NaN for null and for a boolean
parseInt(v) ==
  IF v.t # "num" THEN NaN
  ELSE IF v.v >= 0 THEN Num(100 * (v.v \div 100))
  ELSE Num(-(100 * ((-v.v) \div 100)))

\* parseFloat(value)
parseFloat(v) == IF v.t = "num" THEN v ELSE NaN

\* a rounding that drops the digits after the last place
roundDown(v, places) ==
  IF v = NaN THEN NaN
  ELSE IF places = 0 THEN Num(100 * (v.v \div 100))
  ELSE IF places = 1 THEN Num(10 * (v.v \div 10))
  ELSE v

\* Math.round(value * pow) / pow with pow = Math.pow(10, places): Math.round
\* is floor(x + 0.5); two places and more keep a number of hundredths
round(v, places) ==
  IF v = NaN THEN NaN
  ELSE IF places = 0 THEN Num(100 * ((2 * v.v + 100) \div 200))
  ELSE IF places = 1 THEN Num(10 * ((2 * v.v + 10) \div 20))
  ELSE v

IntFormats == {"int", "uint8", "uint16", "uint32", "uint64"}

\* the value toHAP puts in the object: this.value, fitted within minValue and
\* maxValue, then coerced for the format
wireValue(p, v) ==
  LET a == IF p.minValue # Null /\ lt(v, p.minValue) THEN p.minValue ELSE v
      b == IF p.maxValue # Null /\ gt(a, p.maxValue) THEN p.maxValue ELSE a
  IN  IF p.format \in IntFormats THEN parseInt(b)
      ELSE IF p.format = "float"
           THEN IF p.minStep # NoStep
                THEN round(parseFloat(b), decimalPlaces(p.minStep))
                ELSE parseFloat(b)
           ELSE b

\* the characters of the strings other than ASCII: U+00E9 takes two bytes in
\* UTF-8, and U+FFFD, the replacement character a decoder puts for bytes that
\* are not valid UTF-8, takes three
EAcute      == "U+00E9"
Replacement == "U+FFFD"
utf8Len(c)  == IF c = "" THEN 0 ELSE IF c = EAcute THEN 2 ELSE 3

\* new Buffer(value, 'utf8').byteLength
byteLength(str) == str.v[1] + utf8Len(str.v[2]) + str.v[3]

Min(a, b) == IF a <= b THEN a ELSE b

\* new Buffer(value, 'utf8').toString('utf8', 0, end): the first end bytes,
\* decoded; a character cut by the end decodes to the replacement character
toString(str, end) ==
  LET pre == str.v[1]  wide == str.v[2]  post == str.v[3]
  IN  IF pre >= end THEN Utf8(end, "", 0)
      ELSE IF pre + utf8Len(wide) <= end
           THEN IF wide = "" THEN str
                ELSE Utf8(pre, wide, Min(post, end - pre - utf8Len(wide)))
           ELSE Utf8(pre, Replacement, 0)

\* hap.value and hap.maxLen of a string characteristic: above 256 bytes the
\* value is cut and maxLen is 256, above 64 bytes maxLen is the length
\* (a number, so in hundredths)
wireString(v) ==
  LET len == byteLength(v)
  IN  IF len > 256 THEN [value |-> toString(v, 256), maxLen |-> Num(100 * 256)]
      ELSE IF len > 64 THEN [value |-> v, maxLen |-> Num(100 * len)]
      ELSE [value |-> v, maxLen |-> NoVal]

\* the opt argument of toHAP: absent, {omitValues: false}, {omitValues: true}
Opts ==
  {[given |-> FALSE, omitValues |-> FALSE],
   [given |-> TRUE,  omitValues |-> FALSE],
   [given |-> TRUE,  omitValues |-> TRUE]}

\* a toHAP that deletes the value only when it is asked to
omittedOnRequest(perms, opt) == opt.given /\ opt.omitValues

\* delete hap.value: when perms has no READ, and when opt && opt.omitValues
omitted(perms, opt) == "pr" \notin perms \/ (opt.given /\ opt.omitValues)

\* Characteristic.prototype.toHAP(opt)
toHAP(opt) ==
  /\ hap' = [format   |-> props.format,
             perms    |-> props.perms,
             value    |-> IF omitted(props.perms, opt) THEN NoVal
                          ELSE IF props.format = "string"
                               THEN wireString(wireValue(props, value)).value
                               ELSE wireValue(props, value),
             maxLen   |-> IF props.format = "string"
                          THEN wireString(wireValue(props, value)).maxLen
                          ELSE NoVal,
             minValue |-> IF props.minValue # Null THEN props.minValue ELSE NoVal,
             maxValue |-> IF props.maxValue # Null THEN props.maxValue ELSE NoVal,
             minStep  |-> IF props.minStep # NoStep THEN props.minStep ELSE NoVal]
  /\ UNCHANGED cellVars

\* the props of a numeric characteristic: minValue and maxValue are absent or
\* on the grid, and minValue is not above maxValue
HapProps ==
  {p \in {Props(f, lo, hi, st, pm) :
            f \in {"int", "float"},
            lo \in {Null} \cup {Num(n) : n \in Grid},
            hi \in {Null} \cup {Num(n) : n \in Grid},
            st \in MinSteps,
            pm \in {{"pr", "pw", "ev"}, {"pw"}}} :
     (p.minValue # Null /\ p.maxValue # Null) => p.minValue.v <= p.maxValue.v}

\* the props of a string characteristic
StrProps ==
  {Props("string", Null, Null, NoStep, pm) : pm \in {{"pr", "pw", "ev"}, {"pw"}}}

\* the strings: the ASCII part has about 0, 64 or 256 characters
StrLens == {n \in {b + d : b \in {0, 64, 256}, d \in -MaxD..MaxD} : n >= 0}
StrVals ==
  {Str(n) : n \in StrLens}
    \cup {Utf8(n, EAcute, post) : n \in StrLens, post \in {0, 1}}

\* Characteristic.CurrentTemperature: a float from 0 to 100 in steps of 0.1,
\* and temperatures around 36.97
CurrentTemperature ==
  Props("float", Num(0), Num(10000), [frac |-> 1, exp |-> 0], {"pr", "ev"})
Temperatures == {Num(3697 + d) : d \in -MaxQ..MaxQ}

\* a numeric characteristic made with new Characteristic(displayName, UUID)
\* and given its props by setProps: its value is null until one is stored,
\* and then any number, since setValue and updateValue store what they are
\* passed; or a string characteristic that holds a string
InitHAP ==
  /\ SvcIdle /\ BridgeIdle /\ HapIdle /\ IdIdle /\ StoIdle
  /\ \/ props \in HapProps /\ value \in {Null} \cup {Num(n) : n \in Grid}
     \/ props \in StrProps /\ value \in StrVals
     \/ props = CurrentTemperature /\ value \in Temperatures
  /\ getL = FALSE /\ setL = FALSE
  /\ reqs = <<>>
  /\ emitted = <<>> /\ called = <<>> /\ threw = FALSE

NextHAP == \E opt \in Opts : toHAP(opt) /\ UNCHANGED <<svcVars, brVars, idVars, stoVars, histVars>>

SpecHAP == InitHAP /\ [][NextHAP]_vars

-----------------------------------------------------------------------------
(* A Characteristic nobody listens to: no 'get' and no 'set' listener *)

\* the props explored: Characteristic.On, a float without bounds, a uint8
\* from 1, and an array
PlainProps ==
  {OnProps,
   Props("float", Null, Null, NoStep, {"pr", "pw", "ev"}),
   Props("uint8", Num(100), Null, NoStep, {"pr", "ev"}),
   Props("array", Null, Null, NoStep, {"pr", "pw", "ev"})}

\* the values passed: null, true, 1, NaN and an array of the caller
PlainVals == {Null, Bool(TRUE), Num(100), NaN, Arr(2)}

\* the constructor of a subclass ends with this.value = this.getDefaultValue()
InitNoListener ==
  /\ SvcIdle /\ BridgeIdle /\ HapIdle /\ IdIdle /\ StoIdle
  /\ props \in PlainProps
  /\ value = alloc(getDefaultValue(props), Null)
  /\ getL = FALSE /\ setL = FALSE
  /\ reqs = <<>>
  /\ emitted = <<>> /\ called = <<>> /\ threw = FALSE

\* a step of the Characteristic that leaves lastUpdate at last
Plain(A, last) ==
  A /\ lastUpdate' = last /\ UNCHANGED <<svcVars, brVars, hapVars, idVars, stoVars, svcCall, svcArg, brArg>>

NextNoListener ==
  \/ \E c \in BOOLEAN, x \in Ctxs : Plain(getValue(c, x), lastUpdate)
  \/ \E v \in PlainVals, c \in BOOLEAN, x \in Ctxs : Plain(setValue(v, c, x, NoVal), NoVal)
  \/ \E v \in PlainVals, c \in BOOLEAN, x \in Ctxs, re \in Reentry :
       Plain(updateValue(v, c, x, re), IF c /\ re # NoVal THEN NoVal ELSE v)
  \/ \E opt \in Opts : toHAP(opt) /\ UNCHANGED <<svcVars, brVars, idVars, stoVars, histVars>>

SpecNoListener == InitNoListener /\ [][NextNoListener]_vars

-----------------------------------------------------------------------------
(* Writes to a Characteristic, with and without a 'set' listener *)

\* Characteristic.On, and a uint8 from 1 whose perms have no WRITE
WriteProps ==
  {OnProps, Props("uint8", Num(100), Null, NoStep, {"pr", "ev"})}

\* the constructor of a subclass ends with this.value = this.getDefaultValue()
InitWrite ==
  /\ SvcIdle /\ BridgeIdle /\ HapIdle /\ IdIdle /\ StoIdle
  /\ props \in WriteProps
  /\ value = getDefaultValue(props)
  /\ getL = FALSE /\ setL = FALSE
  /\ reqs = <<>>
  /\ emitted = <<>> /\ called = <<>> /\ threw = FALSE

NextWrite ==
  \/ Cell(onSet)
  \/ \E v \in InVals, c \in BOOLEAN, x \in Ctxs : Cell(setValue(v, c, x, NoVal))
  \/ \E v \in InVals, c \in BOOLEAN, x \in Ctxs : Cell(updateValue(v, c, x, NoVal))
  \/ \E opt \in Opts : toHAP(opt) /\ UNCHANGED <<svcVars, brVars, idVars, stoVars, histVars>>

SpecWrite == InitWrite /\ [][NextWrite]_vars

-----------------------------------------------------------------------------
(* A Characteristic of each kind of format, made with                        *)
(* new Characteristic(displayName, UUID, props): its value starts as null    *)

FormatProps ==
  {Props("bool",   Null, Null, NoStep, {"pr", "pw", "ev"}),
   Props("string", Null, Null, NoStep, {"pr", "pw", "ev"}),
   Props("array",  Null, Null, NoStep, {"pr", "pw", "ev"}),
   Props("uint8",  Num(100), Null, NoStep, {"pr", "pw", "ev"}),
   Props("int",    Num(0), Null, NoStep, {"pr", "pw", "ev"}),
   Props("float",  Null, Null, NoStep, {"pr", "pw", "ev"})}

InitFormats ==
  /\ SvcIdle /\ BridgeIdle /\ HapIdle /\ IdIdle /\ StoIdle
  /\ props \in FormatProps
  /\ value = Null
  /\ getL = FALSE /\ setL = FALSE
  /\ reqs = <<>>
  /\ emitted = <<>> /\ called = <<>> /\ threw = FALSE

NextFormats ==
  \/ Cell(onGet)
  \/ \E c \in BOOLEAN, x \in Ctxs : Cell(getValue(c, x))
  \/ \E v \in InVals, c \in BOOLEAN, x \in Ctxs : Cell(setValue(v, c, x, NoVal))
  \/ \E v \in InVals, c \in BOOLEAN, x \in Ctxs : Cell(updateValue(v, c, x, NoVal))
  \/ \E r \in 1..MaxReq, a \in ResolveArgs : Cell(resolve(r, a[1], a[2], NoVal))

SpecFormats == InitFormats /\ [][NextFormats]_vars

-----------------------------------------------------------------------------
(* Claims about the Characteristic value protocol *)

\* the step is an invocation, by the listener, of the callback of request r
Invokes(r) == r \in DOMAIN reqs /\ reqs'[r].tries = reqs[r].tries + 1

\* C1: the effect of a request handed to a listener happens at most once.  The
\* first invocation of the callback the listener was handed calls the caller's
\* callback; every later invocation changes neither the cache nor the number of
\* times the caller's callback ran, emits no change event and raises nothing.
C1_ResolvedAtMostOnce ==
  [][\A r \in 1..MaxReq :
       Invokes(r) =>
         IF reqs[r].tries = 0
         THEN /\ reqs'[r].fired = 1
              /\ Len(called') = 1 /\ called'[1].req = r
         ELSE /\ value' = value
              /\ emitted' = <<>>
              /\ called' = <<>>
              /\ reqs'[r].fired = reqs[r].fired
              /\ reqs'[r].fired <= 1
              /\ ~threw']_vars

\* a listener has invoked the callback of one request twice
C1_Witness ==
  \E r \in DOMAIN reqs : reqs[r].tries >= 2 /\ reqs[r].fired = 1 /\ called = <<>>

\* C2: when the listener resolves a request with an error, the caller's
\* callback receives exactly that error, the cache keeps its value and no
\* change event is emitted.
C2_ErrorPropagates ==
  [][\A r \in 1..MaxReq, e \in Errs :
       (resolve(r, e, NoVal, NoVal) /\ reqs[r].tries = 0) =>
          /\ called' = <<[req |-> r, err |-> e, val |-> NoVal]>>
          /\ value' = value
          /\ emitted' = <<>>]_vars

\* a set request was resolved with the error E2 while the cache held a value
C2_Witness ==
  /\ called = <<[req |-> 1, err |-> "E2", val |-> NoVal]>>
  /\ Len(reqs) >= 1 /\ reqs[1].kind = "set" /\ reqs[1].arg = Bool(TRUE)
  /\ value # Bool(TRUE) /\ value # Null

\* What one mutation path must do with the raw value `raw` and the context
\* `context`: write the default-filled value, and emit its own event (the one
\* carrying `context`) if and only if that value differs from the cache it
\* replaced.  A callback that re-enters the cell (re) emits before it and has
\* the last word on the cache.
MutationOK(raw, context, cbOn, re) ==
  LET newValue == IF raw = Null THEN getDefaultValue(props) ELSE raw
      own == IF value # newValue
             THEN <<[oldValue |-> value, newValue |-> newValue, context |-> context]>>
             ELSE <<>>
  IN  /\ SelectSeq(emitted', LAMBDA e : e.context = context) = own
      /\ (~cbOn \/ re = NoVal) => (emitted' = own /\ value' = newValue)

C4_BothCallbacksFire ==
  \A r \in 1..MaxReq :
    /\ [](r \in DOMAIN reqs => reqs[r].fired <= 1)
    /\ (r \in DOMAIN reqs) ~> (r \in DOMAIN reqs /\ reqs[r].fired = 1)

\* two get requests were pending together; the second was resolved first, by a
\* listener that invoked its callback twice, and the first has just been resolved
C4_Witness ==
  /\ Len(reqs) >= 2
  /\ reqs[1].kind = "get" /\ reqs[2].kind = "get"
  /\ reqs[1].fired = 1 /\ reqs[2].fired = 1
  /\ reqs[1].tries = 1 /\ reqs[2].tries = 2
  /\ Len(called) = 1 /\ called[1].req = 1

-----------------------------------------------------------------------------
(* Claims about the Service *)

\* C5: whatever sequence of addCharacteristic, removeCharacteristic,
\* getCharacteristic (with its lazy promotion), setCharacteristic,
\* updateCharacteristic and addOptionalCharacteristic ran, no two of the
\* Service's characteristics have the same UUID.
C5_UniqueUUIDs ==
  \A i, j \in DOMAIN characteristics :
    i # j => characteristics[i].UUID # characteristics[j].UUID

\* the Service holds two characteristics, an optional one of the same type as
\* the first, and has just refused a third with the UUID of the first
C5_Witness ==
  /\ Len(characteristics) = 2
  /\ Len(optionalCharacteristics) = 1
  /\ optionalCharacteristics[1].UUID = characteristics[1].UUID
  /\ svcThrew = SameUUID

\* the UUID of what addCharacteristic is passed
ArgUUID(arg) == IF arg.kind = "function" THEN arg.ctor ELSE arg.obj.UUID

\* C6: addCharacteristic with a characteristic (or a constructor) whose UUID is
\* that of a characteristic the Service already has raises, and the Service is
\* as before: same list, no new 'change' listener on any characteristic, no
\* configuration-change event.
C6_DuplicateAddRefused ==
  [][\A arg \in CharArgs :
       (addCharacteristic(arg) /\ \E i \in DOMAIN characteristics :
                                      characteristics[i].UUID = ArgUUID(arg)) =>
          /\ svcThrew' = SameUUID
          /\ characteristics' = characteristics
          /\ optionalCharacteristics' = optionalCharacteristics
          /\ subs' = subs
          /\ svcEmitted' = <<>>]_vars

\* the custom characteristic was refused: subclass 1's instance, which has its
\* UUID, is in the list
C6_Witness ==
  /\ svcThrew = SameUUID
  /\ Len(characteristics) >= 1
  /\ characteristics[1] = [ctor |-> 1, UUID |-> 1, copy |-> "a"]
  /\ subs[[ctor |-> 0, UUID |-> 1, copy |-> "a"]] = 0
  /\ svcEmitted = <<>>

-----------------------------------------------------------------------------
(* Claims about the Bridge *)

\* C7: whatever sequence of addBridgedAccessory, addBridgedAccessories,
\* removeBridgedAccessory and removeBridgedAccessories ran, no bridged
\* accessory is a Bridge and no two bridged accessories have the same UUID.
C7_NoNestingNoDuplicates ==
  /\ \A i \in DOMAIN bridgedAccessories : ~isBridge(bridgedAccessories[i])
  /\ \A i, j \in DOMAIN bridgedAccessories :
       i # j => AccUUID(bridgedAccessories[i]) # AccUUID(bridgedAccessories[j])

\* two accessories are bridged, a third was bridged and removed, and a bulk
\* add has just been refused
C7_Witness ==
  /\ Len(bridgedAccessories) = 2
  /\ \E a \in Accs : bridged[a] /\ a \notin Range(bridgedAccessories)
  /\ brCall = "addBridgedAccessories"
  /\ brThrew # NoErr

\* C8: addBridgedAccessory with a Bridge, or with an accessory whose UUID is
\* that of a bridged accessory, raises and changes nothing: the list is the
\* same, no accessory gains a BridgingState service, seeded values, the
\* bridged mark or a listener, and _updateConfiguration is not called.
C8_RefusedAddChangesNothing ==
  [][\A a \in Accs, d \in BOOLEAN :
       (addBridgedAccessory(a, d)
          /\ (isBridge(a) \/ accConflict(bridgedAccessories, AccUUID(a)))) =>
          /\ brThrew' \in {CannotBridge, SameAccUUID}
          /\ bridgedAccessories' = bridgedAccessories
          /\ hasBS' = hasBS
          /\ seeded' = seeded
          /\ bridged' = bridged
          /\ lis' = lis
          /\ recomputes' = 0]_vars

\* an accessory that was never bridged has just been refused because another
\* object with its UUID is bridged
C8_Witness ==
  /\ brCall = "addBridgedAccessory"
  /\ brThrew = SameAccUUID
  /\ recomputes = 0
  /\ \E a \in Accs :
       /\ a \notin Range(bridgedAccessories)
       /\ accConflict(bridgedAccessories, AccUUID(a))
       /\ ~bridged[a] /\ ~hasBS[a] /\ lis[a] = 0 /\ seeded[a] = NoSeed

-----------------------------------------------------------------------------
(* Claims about toHAP *)

\* both minValue and maxValue are set, the value is a number, and toHAP has
\* returned an object with a value
Bounded ==
  /\ hap.value # NoVal
  /\ props.minValue # Null /\ props.maxValue # Null
  /\ value.t = "num"

\* C9: when minValue and maxValue are both set, the value toHAP returns is
\* minValue whenever this.value is below minValue, and maxValue whenever
\* this.value is above maxValue.
C9_ClampsToBound ==
  Bounded =>
    /\ (value.v < props.minValue.v => hap.value = props.minValue)
    /\ (value.v > props.maxValue.v => hap.value = props.maxValue)

\* a float with minValue 0.25, maxValue 1 and minStep 1 holds 0: toHAP
\* returns 0
C9_Witness ==
  /\ props = Props("float", Num(25), Num(100), [frac |-> 0, exp |-> 0], {"pr", "pw", "ev"})
  /\ value = Num(0)
  /\ hap.value = Num(0)

\* C10: the value toHAP returns for a numeric characteristic, after the
\* clamp, the integer coercion and the rounding to minStep's precision, is
\* not below minValue and not above maxValue, whatever number this.value is
\* and whatever minValue, maxValue and minStep are.
C10_WithinBounds ==
  (hap.value # NoVal /\ value.t = "num") =>
    /\ (props.minValue # Null =>
          hap.value.t = "num" /\ hap.value.v >= props.minValue.v)
    /\ (props.maxValue # Null =>
          hap.value.t = "num" /\ hap.value.v <= props.maxValue.v)

\* a float with minValue 0, maxValue 0.25 and minStep 0.1 holds 1: toHAP
\* returns 0.3
C10_Witness ==
  /\ props = Props("float", Num(0), Num(25), [frac |-> 1, exp |-> 0], {"pr", "pw", "ev"})
  /\ value = Num(100)
  /\ hap.value = Num(30)


\* C11: the object toHAP returns for a characteristic whose perms have no
\* READ has no value, whether opt is absent, {omitValues: false} or
\* {omitValues: true}; and with {omitValues: true} it has no value for a
\* readable characteristic either.
C11_ValueOmitted ==
  [][\A opt \in Opts :
       toHAP(opt) =>
         /\ ("pr" \notin props.perms => hap'.value = NoVal)
         /\ ((opt.given /\ opt.omitValues) => hap'.value = NoVal)]_vars

\* toHAP has returned an object without a value for a write-only
\* characteristic whose cached value is a number
C11_Witness ==
  /\ hap.format # "none"
  /\ "pr" \notin hap.perms
  /\ value.t = "num"
  /\ hap.value = NoVal


\* C12: for a string characteristic whose value takes L bytes in UTF-8, the
\* value toHAP returns is cut to exactly 256 bytes with maxLen 256 when
\* L > 256, is the whole value with maxLen L when 65 <= L <= 256, and is the
\* whole value without maxLen when L <= 64.
C12_StringLength ==
  (hap.format = "string" /\ hap.value # NoVal) =>
    LET L == byteLength(value)
    IN  /\ L > 256 => (byteLength(hap.value) = 256 /\ hap.maxLen = Num(100 * 256))
        /\ (65 <= L /\ L <= 256) => (hap.value = value /\ hap.maxLen = Num(100 * L))
        /\ L <= 64 => (hap.value = value /\ hap.maxLen = NoVal)

\* a string of 255 ASCII characters and U+00E9, 257 bytes: toHAP returns the
\* 255 characters and U+FFFD, 258 bytes
C12_Witness ==
  /\ value = Utf8(255, EAcute, 0)
  /\ hap.format = "string"
  /\ hap.value = Utf8(255, Replacement, 0)
  /\ byteLength(hap.value) = 258
  /\ hap.maxLen = Num(100 * 256)


\* this.value fitted within minValue and maxValue, in hundredths
Clamped ==
  IF props.minValue # Null /\ value.v < props.minValue.v THEN props.minValue.v
  ELSE IF props.maxValue # Null /\ value.v > props.maxValue.v THEN props.maxValue.v
  ELSE value.v

\* n is d places from m, in hundredths: a multiple of 10^-d that is not
\* farther from m than half of 10^-d
Nearest(n, m, d) ==
  LET unit == IF d = 0 THEN 100 ELSE IF d = 1 THEN 10 ELSE 1
  IN  /\ d >= 2 => n = m
      /\ n % unit = 0
      /\ 2 * (n - m) <= unit /\ 2 * (m - n) <= unit

\* C13: for a float characteristic with minStep set, the value toHAP returns
\* is the clamped value rounded to as many decimal places as minStep has;
\* Characteristic.CurrentTemperature (0 to 100, minStep 0.1) holding 36.97
\* gives 37.0.
C13_RoundedToMinStep ==
  (hap.format = "float" /\ hap.value # NoVal /\ value.t = "num"
     /\ props.minStep # NoStep) =>
    /\ hap.value.t = "num"
    /\ Nearest(hap.value.v, Clamped,
               IF props.minStep.exp < 0
               THEN props.minStep.frac - props.minStep.exp ELSE props.minStep.frac)
    /\ (props = CurrentTemperature /\ value = Num(3697)) => hap.value = Num(3700)

\* CurrentTemperature holds 36.97 and toHAP has returned 37.0
C13_Witness ==
  /\ props = CurrentTemperature
  /\ value = Num(3697)
  /\ hap.value = Num(3700)


-----------------------------------------------------------------------------
(* Claims about a Characteristic nobody listens to *)

\* C14: of two updateValue(x) calls in a row with the same x, with no other
\* mutation between them, the first emits one 'change' event exactly when it
\* alters the cache and none otherwise, and the second emits none.
C14_SecondUpdateSilent ==
  [][\A x \in PlainVals, c \in BOOLEAN, ctx \in Ctxs :
       updateValue(x, c, ctx, NoVal) =>
         /\ Len(emitted') <= 1
         /\ (Len(emitted') = 1) <=> (value' # value)
         /\ lastUpdate = x => emitted' = <<>>]_vars

\* a float characteristic that holds NaN after updateValue(NaN) has emitted
\* 'change' from NaN to NaN
C14_Witness ==
  /\ props.format = "float"
  /\ lastUpdate = NaN
  /\ value = NaN
  /\ emitted = <<changeEvent(NaN, NaN, <<"ctx", 1>>)>>


\* what the cache holds after v is written: v, or for null the default of the
\* format, false for bool and minValue-or-zero for a number
Written(v) ==
  IF v # Null THEN v
  ELSE IF props.format = "bool" THEN Bool(FALSE)
  ELSE IF props.minValue # Null THEN props.minValue ELSE Num(0)

\* C15: setValue(v) without a 'set' listener, and updateValue(v) with or
\* without one, put the default-filled v in the cache in the call itself and
\* do not look at the perms, so they do it without WRITE too.  For
\* Characteristic.On holding false, setValue(true) leaves true, emits exactly
\* one 'change' from false to true, and toHAP then returns value true.
C15_BlindWrite ==
  [][/\ \A v \in InVals, c \in BOOLEAN, ctx \in Ctxs :
          /\ (setValue(v, c, ctx, NoVal) /\ ~setL) => value' = Written(v)
          /\ updateValue(v, c, ctx, NoVal) => (value' = Written(v) /\ reqs' = reqs)
          /\ (setValue(Bool(TRUE), c, ctx, NoVal) /\ ~setL
                /\ props = OnProps /\ value = Bool(FALSE)) =>
               /\ value' = Bool(TRUE)
               /\ emitted' = <<changeEvent(Bool(FALSE), Bool(TRUE), ctx)>>
     /\ \A opt \in Opts :
          (toHAP(opt) /\ ~(opt.given /\ opt.omitValues)
             /\ props = OnProps /\ value = Bool(TRUE)) =>
            hap'.value = Bool(TRUE)]_vars

\* Characteristic.On, without a 'set' listener, holds true and toHAP has
\* returned value true
C15_Witness ==
  /\ props = OnProps /\ ~setL
  /\ value = Bool(TRUE)
  /\ hap.value = Bool(TRUE)

\* C16: getValue on a characteristic without a 'get' listener calls the
\* callback in the call itself with no error and the cached value, leaves
\* the cache as it is and emits no 'change'.
C16_GetReturnsCache ==
  [][\A c \in BOOLEAN, ctx \in Ctxs :
       (getValue(c, ctx) /\ ~getL) =>
         /\ called' = IF c THEN <<[req |-> 0, err |-> NoErr, val |-> value]>> ELSE <<>>
         /\ value' = value
         /\ emitted' = <<>>
         /\ reqs' = reqs]_vars

\* the callback of getValue has been called with the cached NaN
C16_Witness ==
  /\ ~getL
  /\ value = NaN
  /\ called = <<[req |-> 0, err |-> NoErr, val |-> NaN]>>
  /\ emitted = <<>>


\* x is the default of the format: false for bool, "" for string, an array
\* for array, minValue-or-zero for a number
IsDefault(x) ==
  CASE props.format = "bool"   -> x = Bool(FALSE)
    [] props.format = "string" -> x = Utf8(0, "", 0)
    [] props.format = "array"  -> x.t = "array"
    [] OTHER -> x = IF props.minValue # Null THEN props.minValue ELSE Num(0)

\* the cache after v was written: not null, the default for a null v, and v
\* otherwise
Filled(v) ==
  /\ value' # Null
  /\ v = Null => IsDefault(value')
  /\ v # Null => value' = v

-----------------------------------------------------------------------------
(* Claims about the lookups of a Service *)

\* characteristic o is of the type of constructor k: an instance of it, or
\* one with its UUID
OfType(o, k) == o.ctor = k \/ o.UUID = k
ActiveOfType(k) == \E i \in DOMAIN characteristics : OfType(characteristics[i], k)
OptionalOfType(k) ==
  \E i \in DOMAIN optionalCharacteristics : OfType(optionalCharacteristics[i], k)

\* C18: getCharacteristic with a constructor that no characteristic of the
\* Service is of, but an optional characteristic is, returns a new instance of
\* the constructor and adds exactly that one to this.characteristics; while
\* it is there, toHAP has it and every lookup of the type returns it, the one
\* characteristic of the type, and adds nothing.
C18_LazyPromotion ==
  [][/\ \A k \in Ctors :
          getCharacteristic([kind |-> "function", ctor |-> k, name |-> <<0, 0>>]) =>
            /\ (~ActiveOfType(k) /\ OptionalOfType(k)) =>
                  /\ svcRet'.ctor = k
                  /\ svcRet' \notin Range(characteristics)
                  /\ svcRet' \notin Range(optionalCharacteristics)
                  /\ characteristics' = Append(characteristics, svcRet')
            /\ ActiveOfType(k) =>
                  /\ characteristics' = characteristics
                  /\ OfType(svcRet', k)
                  /\ \A i \in DOMAIN characteristics :
                       OfType(characteristics[i], k) => characteristics[i] = svcRet'
     /\ Service_toHAP =>
          /\ svcHap'.returned
          /\ \A i \in DOMAIN characteristics :
               \E j \in DOMAIN svcHap'.characteristics :
                  svcHap'.characteristics[j].type = characteristics[i].UUID]_vars

\* the lookup of a type has just returned the one characteristic of the
\* Service, which is not the optional characteristic of its type
C18_Witness ==
  /\ svcCall.method = "getCharacteristic"
  /\ svcCall.name.kind = "function"
  /\ svcEmitted = <<>>
  /\ Len(characteristics) = 1
  /\ svcRet = characteristics[1]
  /\ subs[svcRet] = 1
  /\ Len(optionalCharacteristics) = 1
  /\ optionalCharacteristics[1] # svcRet
  /\ optionalCharacteristics[1].UUID = svcRet.UUID


\* no characteristic of the Service matches the selector and an optional
\* characteristic does
OnlyOptional(sel) ==
  /\ \A i \in DOMAIN characteristics : ~matches(characteristics[i], sel)
  /\ \E i \in DOMAIN optionalCharacteristics : matches(optionalCharacteristics[i], sel)

\* C19 as stated: with a display name as with a constructor, when no
\* characteristic of the Service matches and an optional characteristic does,
\* getCharacteristic adds a characteristic and returns it.
C19_EitherSelectorPromotes ==
  [][\A sel \in Selectors :
       (getCharacteristic(sel) /\ OnlyOptional(sel)) =>
          /\ svcRet' # None
          /\ matches(svcRet', sel)
          /\ characteristics' = Append(characteristics, svcRet')]_vars

\* C19, as the code has it: getCharacteristic does so for a constructor; for
\* a display name that only an optional characteristic has it returns
\* undefined and the Service is as before: same list, same listeners, no
\* event, no error.
C19_OnlyConstructorPromotes ==
  [][\A sel \in Selectors :
       (getCharacteristic(sel) /\ OnlyOptional(sel)) =>
          IF sel.kind = "function"
          THEN /\ svcRet' # None
               /\ matches(svcRet', sel)
               /\ characteristics' = Append(characteristics, svcRet')
          ELSE /\ svcRet' = None
               /\ svcThrew' = NoErr
               /\ characteristics' = characteristics
               /\ subs' = subs
               /\ svcEmitted' = <<>>]_vars

\* getCharacteristic has just returned undefined for the display name of
\* the optional characteristic of a Service that has no characteristic
C19_Witness ==
  /\ svcCall.method = "getCharacteristic"
  /\ svcCall.name.kind = "string"
  /\ svcRet = None
  /\ characteristics = <<>>
  /\ Len(optionalCharacteristics) = 1
  /\ matches(optionalCharacteristics[1], svcCall.name)

\* C20: testCharacteristic leaves this.characteristics and
\* this.optionalCharacteristics as they are and emits nothing; it returns
\* true exactly when a characteristic of the Service matches the selector,
\* so false for a type that only an optional characteristic has.
C20_TestIsPure ==
  [][\A sel \in Selectors :
       testCharacteristic(sel) =>
          /\ characteristics' = characteristics
          /\ optionalCharacteristics' = optionalCharacteristics
          /\ subs' = subs
          /\ svcEmitted' = <<>>
          /\ svcRet' = IF \E i \in DOMAIN characteristics :
                             IF sel.kind = "string"
                             THEN CharName(characteristics[i]) = sel.name
                             ELSE OfType(characteristics[i], sel.ctor)
                       THEN True ELSE False]_vars

\* testCharacteristic has just returned false for a Service without
\* characteristics that has an optional one
C20_Witness ==
  /\ svcCall.method = "testCharacteristic"
  /\ svcRet = False
  /\ characteristics = <<>>
  /\ Len(optionalCharacteristics) = 1

-----------------------------------------------------------------------------
(* Service: removal and the events of its characteristics *)

\* the list without o, the others in their order
Without(list, o) == SelectSeq(list, LAMBDA x : x # o)

C22_AbsentRemovalRaises ==
  [][\A o \in CharObjs :
       (Member("removeCharacteristic", o, NoChange, removeCharacteristic(o))
          /\ o \notin Range(characteristics)) =>
         svcThrew' # NoErr]_vars

\* removeCharacteristic has just returned for a characteristic the Service
\* does not have, without an error and without an event
C22_Witness ==
  /\ svcCall.method = "removeCharacteristic"
  /\ svcArg.obj \in CharObjs
  /\ svcArg.at = 0
  /\ svcThrew = NoErr
  /\ svcEmitted = <<>>

\* C23: a 'change' event of a characteristic that is in this.characteristics
\* makes the Service emit one 'characteristic-change', with the oldValue,
\* newValue and context of the event and the characteristic; this after any
\* calls of addCharacteristic, removeCharacteristic and getCharacteristic.
C23_OneEventPerChange ==
  [][\A o \in CharObjs, change \in Changes :
       (Member("change", o, change, emitsChange(o, change))
          /\ o \in Range(characteristics)) =>
         /\ Len(svcEmitted') = 1
         /\ svcEmitted'[1].type = "characteristic-change"
         /\ svcEmitted'[1].characteristic = o
         /\ svcEmitted'[1].oldValue = change.oldValue
         /\ svcEmitted'[1].newValue = change.newValue
         /\ svcEmitted'[1].context = change.context]_vars

\* the second characteristic of the Service has just changed from true to
\* false in a re-entrant callback, and the Service has emitted its event
C23_Witness ==
  /\ svcCall.method = "change"
  /\ svcArg.at = 2
  /\ svcArg.change = changeEvent(Bool(TRUE), Bool(FALSE), CbCtx)
  /\ svcEmitted = <<clone(svcArg.change, svcArg.obj)>>

-----------------------------------------------------------------------------
(* Service: the IDs *)

\* C24: _assignIDs on a Service sets its iid to 1, without a getIID call for
\* the Service, when its UUID is that of the Accessory Information service,
\* and to what getIID(accessoryName, UUID, subtype) returns otherwise; each
\* of its characteristics gets what getIID(accessoryName, UUID, subtype,
\* characteristic UUID) returns; the optional characteristics keep a null
\* iid.
C24_AssignIDs ==
  [][\A i \in 1..NSvc :
       Ids(assignIDs(i)) =>
         LET s   == services[i]
             own == <<AccessoryName, s.UUID, s.subtype, NoChar>>
         IN  /\ IF s.UUID = AccessoryInformation
                THEN /\ svcIID'[i] = 1
                     /\ \A n \in DOMAIN asked' : asked'[n] # own
                ELSE /\ \E n \in DOMAIN asked' : asked'[n] = own
                     /\ svcIID'[i] = iidOf(issued', own)
             /\ DOMAIN charIID'[i] = DOMAIN s.characteristics
             /\ \A n \in DOMAIN s.characteristics :
                  LET key == <<AccessoryName, s.UUID, s.subtype, s.characteristics[n]>>
                  IN  /\ \E m \in DOMAIN asked' : asked'[m] = key
                      /\ charIID'[i][n] = iidOf(issued', key)
             /\ \A n \in DOMAIN optIID'[i] : optIID'[i][n] = 0]_vars

\* the Accessory Information service has iid 1, and _assignIDs has just run
\* on a Service with a subtype, one characteristic and one optional
\* characteristic: two keys were looked up and the optional one has no iid
C24_Witness ==
  /\ services # <<>>
  /\ svcIID[1] = 1
  /\ services[2].subtype = "s"
  /\ services[2].characteristics = <<1>>
  /\ asked = <<Key(services[2].UUID, "s", NoChar), Key(services[2].UUID, "s", 1)>>
  /\ svcIID[2] = iidOf(issued, asked[1])
  /\ charIID[2] = <<iidOf(issued, asked[2])>>
  /\ optIID[2] = <<0>>

\* the objects of the Accessory that have an iid: its Services and their
\* characteristics
WithIID ==
  {<<i, 0>> : i \in DOMAIN services}
    \cup {x \in (DOMAIN services) \X (1..2) : x[2] <= Len(services[x[1]].characteristics)}
IID(x) == IF x[2] = 0 THEN svcIID[x[1]] ELSE charIID[x[1]][x[2]]

\* _assignIDs has run on every Service
AllAssigned == services # <<>> /\ \A i \in DOMAIN services : svcIID[i] # 0

Distinct == \A x, y \in WithIID : x # y => IID(x) # IID(y)

\* C25: with a cache that gives distinct keys distinct IIDs, once _assignIDs
\* has run on every Service of the Accessory, no two of the Services and
\* characteristics have the same iid (so neither do two Services with one
\* UUID and different subtypes, nor their characteristics of one UUID).
C25_DistinctIDs == AllAssigned => Distinct

\* C25, amended: the same for a cache that gives distinct keys distinct IIDs
\* and gives no key the IID 1.
C25_DistinctIDsBut1 == (AllAssigned /\ firstIID # 1) => Distinct

\* _assignIDs has run on every Service of an Accessory with two Services of
\* one UUID, with and without a subtype, that have the same characteristics,
\* with a cache that starts at 2
C25_Witness ==
  /\ AllAssigned
  /\ firstIID = 2
  /\ services[2].UUID = services[3].UUID
  /\ services[2].subtype # services[3].subtype
  /\ services[2].characteristics = <<1, 2>>
  /\ services[3].characteristics = <<1, 2>>

-----------------------------------------------------------------------------
(* Bridge: the BridgingState service, recomputes and listeners *)

\* C26: after an addBridgedAccessory(a) that did not raise, a has a
\* BridgingState service whose AccessoryIdentifier, Reachable and Category
\* hold a.UUID, a.reachable and a.category as they were when it was called;
\* assigning a.reachable or a.category later leaves these values.
C26_SeededAtAdd ==
  [][\A a \in Accs :
       /\ \A d \in BOOLEAN :
            (Br(addBridgedAccessory(a, d)) /\ brThrew' = NoErr) =>
               /\ hasBS'[a]
               /\ seeded'[a] = [identifier |-> AccUUID(a),
                                reachable  |-> accReachable[a],
                                category   |-> accCategory[a]]
       /\ \A r \in BOOLEAN :
            Br(setReachable(a, r)) => (hasBS' = hasBS /\ seeded' = seeded)
       /\ \A c \in Categories :
            Br(setCategory(a, c)) => (hasBS' = hasBS /\ seeded' = seeded)]_vars

\* accessory 1 was added when it was unreachable and of category 2; it is
\* still bridged, is now reachable and of category 1, and its BridgingState
\* service holds the values of the add
C26_Witness ==
  /\ \E i \in DOMAIN bridgedAccessories : bridgedAccessories[i] = 1
  /\ hasBS[1]
  /\ seeded[1] = [identifier |-> AccUUID(1), reachable |-> FALSE, category |-> 2]
  /\ accReachable[1] = TRUE
  /\ accCategory[1] = 1

\* C27: an addBridgedAccessory or removeBridgedAccessory that does not raise
\* calls _updateConfiguration once when deferUpdate is false and not at all
\* when it is true; an addBridgedAccessories or removeBridgedAccessories
\* that does not raise calls it once, when the last accessory has been added
\* or removed.
C27_OneRecompute ==
  brThrew = NoErr =>
    /\ brCall \in {"addBridgedAccessory", "removeBridgedAccessory"} =>
         /\ recomputes = IF brArg.deferUpdate THEN 0 ELSE 1
         /\ ~brArg.deferUpdate => configured = bridgedAccessories
    /\ brCall \in {"addBridgedAccessories", "removeBridgedAccessories"} =>
         /\ recomputes = 1
         /\ configured = bridgedAccessories

\* addBridgedAccessories has just added two accessories to a Bridge that had
\* none and has called _updateConfiguration once, with both in the list
C27_Witness ==
  /\ brCall = "addBridgedAccessories"
  /\ brThrew = NoErr
  /\ Len(bridgedAccessories) = 2
  /\ lis[bridgedAccessories[1]] = 1
  /\ lis[bridgedAccessories[2]] = 1
  /\ recomputes = 1
  /\ configured = bridgedAccessories

\* the events of the accessories
ChildEvents == {"service-characteristic-change", "service-configurationChange"}

\* accessory c is in this.bridgedAccessories
IsChild(c) == \E k \in DOMAIN bridgedAccessories : bridgedAccessories[k] = c

\* C28: after a removeBridgedAccessory(a) that did not raise, no accessory
\* with the UUID of a is in this.bridgedAccessories, whichever object a is;
\* and when an accessory that was bridged and has been removed emits an
\* event, the Bridge handles no change and recomputes nothing.
C28_RemovedChildSilent ==
  /\ (brCall = "removeBridgedAccessory" /\ brThrew = NoErr) =>
        \A k \in DOMAIN bridgedAccessories :
           AccUUID(bridgedAccessories[k]) # AccUUID(brArg.accessory)
  /\ (brCall \in ChildEvents /\ bridged[brArg.accessory] /\ ~IsChild(brArg.accessory)) =>
        (handled = <<>> /\ recomputes = 0)

\* accessory 1 was added and has been removed (the Bridge has no accessory);
\* it has just emitted service-characteristic-change, and the Bridge has
\* handled it
C28_Witness ==
  /\ brCall = "service-characteristic-change"
  /\ brArg.accessory = 1
  /\ bridged[1]
  /\ bridgedAccessories = <<>>
  /\ handled = <<1>>

\* C29: removeBridgedAccessory(a) raises when a is a Bridge or when no
\* accessory of this.bridgedAccessories has the UUID of a, and then the
\* list and the listeners on every accessory are as before and
\* _updateConfiguration is not called.
C29_RefusedRemoveChangesNothing ==
  [][(/\ brCall' = "removeBridgedAccessory"
      /\ \/ isBridge(brArg'.accessory)
         \/ \A k \in DOMAIN bridgedAccessories :
               AccUUID(bridgedAccessories[k]) # AccUUID(brArg'.accessory)) =>
       /\ brThrew' # NoErr
       /\ bridgedAccessories' = bridgedAccessories
       /\ lis' = lis
       /\ recomputes' = 0
       /\ handled' = <<>>]_vars

\* removeBridgedAccessory has just raised for an accessory that still has a
\* listener of the Bridge and whose UUID no bridged accessory has, while
\* another accessory is bridged
C29_Witness ==
  /\ brCall = "removeBridgedAccessory"
  /\ brThrew = CannotFind
  /\ lis[brArg.accessory] = 1
  /\ Len(bridgedAccessories) = 1
  /\ lis[bridgedAccessories[1]] = 1

\* C30: when an accessory that is in this.bridgedAccessories emits
\* service-characteristic-change, the Bridge handles the change once,
\* annotated with that accessory; this after any calls of
\* addBridgedAccessory and removeBridgedAccessory.
C30_HandledOnce ==
  (brCall = "service-characteristic-change" /\ IsChild(brArg.accessory)) =>
     handled = <<brArg.accessory>>

\* accessory 1 is the bridged accessory of the Bridge, after it was removed
\* once; it has just emitted service-characteristic-change, and the Bridge
\* has handled it twice
C30_Witness ==
  /\ brCall = "service-characteristic-change"
  /\ brArg.accessory = 1
  /\ bridgedAccessories = <<1>>
  /\ handled = <<1, 1>>

-----------------------------------------------------------------------------
(* Claims about the order of the cache write, the callback and the event *)

\* C31: when a 'change' event of a Characteristic is delivered, this.value
\* equals the event's newValue, on every path that writes the cache, also
\* when the caller's callback writes the same Characteristic again.
C31_EventCarriesCache ==
  \A i \in 1..Len(emitted) : emitted[i].newValue = value

\* updateValue(null, callback) on the int characteristic, whose callback
\* called updateValue(true): the event of the callback's write was delivered
\* first, and the event of the outer write says 100 while the cache holds true
C31_Witness ==
  /\ props.format = "int"
  /\ value = Bool(TRUE)
  /\ emitted = <<changeEvent(Num(100), Bool(TRUE), CbCtx),
                 changeEvent(Null, Num(100), <<"ctx", 1>>)>>

\* C32: requests in flight on one Characteristic are not put in a queue: the
\* first successful call of a request's callback by the listener, whatever
\* the requests issued before or after it have done, writes that request's
\* value to the cache, and emits 'change' exactly when the value differs from
\* the cache the step before left; so the cache ends with the value of the
\* resolution that came last.
C32_AppliedOnArrival ==
  [][\A r \in 1..Len(reqs), v \in InVals :
       (resolve(r, NoErr, v, NoVal) /\ ~reqs[r].latch) =>
          LET raw == IF reqs[r].kind = "get" THEN v ELSE reqs[r].arg
              new == fill(raw, props)
          IN  /\ value' = new
              /\ emitted' = IF changed(value, new)
                            THEN <<changeEvent(value, new, ReqCtx(r))>>
                            ELSE <<>>]_vars

\* a getValue was issued and then a setValue(true); the listener of 'set'
\* answered first and the listener of 'get' has just answered with null:
\* the cache went from true to the default of the bool characteristic
C32_Witness ==
  /\ props.format = "bool"
  /\ Len(reqs) = 2
  /\ reqs[1].kind = "get" /\ reqs[1].latch /\ reqs[1].tries = 1
  /\ reqs[2].kind = "set" /\ reqs[2].latch /\ reqs[2].arg = Bool(TRUE)
  /\ value = Bool(FALSE)
  /\ emitted = <<changeEvent(Bool(TRUE), Bool(FALSE), ReqCtx(1))>>

\* C33: a getValue or setValue that goes to a listener writes nothing and
\* emits nothing itself, and as long as the listener has not called the
\* request's callback, the caller's callback has not been invoked and no
\* 'change' event of that request has been emitted; nothing but the listener's
\* call ends the wait.
C33_PendingChangesNothing ==
  [][/\ Len(reqs') > Len(reqs) =>
          /\ value' = value
          /\ emitted' = <<>>
          /\ called' = <<>>
     /\ \A r \in DOMAIN reqs' :
          reqs'[r].tries = 0 =>
            /\ reqs'[r].fired = 0
            /\ ~reqs'[r].latch
            /\ \A i \in 1..Len(emitted') : emitted'[i].context # ReqCtx(r)
            /\ \A i \in 1..Len(called') : called'[i].req # r]_vars

\* setValue(true) is still with the 'set' listener, the cache does not hold
\* true, and a request issued after it has been answered and has invoked its
\* caller's callback
C33_Witness ==
  /\ Len(reqs) = 2
  /\ reqs[1].kind = "set" /\ reqs[1].arg = Bool(TRUE)
  /\ reqs[1].tries = 0 /\ reqs[1].fired = 0
  /\ reqs[2].tries = 1 /\ reqs[2].fired = 1
  /\ value # Bool(TRUE) /\ value # Null
  /\ called = <<cb(2, NoErr, NoVal)>>

-----------------------------------------------------------------------------
(* Claims about a member characteristic that has 'get' and 'set' listeners *)

\* C34: removeCharacteristic(c) leaves c's cached value, c's props and c's
\* 'get' and 'set' listeners as they were.
C34_RemoveKeepsOverrides ==
  [][Own(removeOwned(TheCell)) =>
       /\ value' = value
       /\ props' = props
       /\ getL' = getL
       /\ setL' = setL]_vars

\* a getValue of the characteristic went to its 'get' listener; the
\* characteristic was then removed and added again, and a getValue has just
\* been answered from the cache without a listener
C34_Witness ==
  /\ characteristics = <<TheCell>>
  /\ subs[TheCell] = 1
  /\ Len(reqs) = 1 /\ reqs[1].kind = "get"
  /\ ~getL
  /\ called = <<cb(0, NoErr, value)>>

-----------------------------------------------------------------------------
(* Claims about the bridged flag and the bulk calls of the Bridge *)

\* C35: after any calls of addBridgedAccessory, addBridgedAccessories,
\* removeBridgedAccessory and removeBridgedAccessories, accessory.bridged is
\* true exactly for the accessories in this.bridgedAccessories.
C35_BridgedIffChild ==
  \A a \in Accs : bridged[a] <=> IsChild(a)

\* accessory 1 was added and has just been removed: the list is empty and
\* its bridged flag is still true
C35_Witness ==
  /\ brCall = "removeBridgedAccessory"
  /\ brThrew = NoErr
  /\ bridgedAccessories = <<>>
  /\ bridged[1]
  /\ lis[1] = 0

\* C36: when control leaves addBridgedAccessories or removeBridgedAccessories,
\* by return or by an error of one element, and the call has changed
\* this.bridgedAccessories, the call has run _updateConfiguration on the list
\* it leaves.
C36_BulkRecomputes ==
  [][(/\ brCall' \in {"addBridgedAccessories", "removeBridgedAccessories"}
      /\ bridgedAccessories' # bridgedAccessories) =>
        /\ recomputes' >= 1
        /\ configured' = bridgedAccessories']_vars

\* addBridgedAccessories([accessory 1, the Bridge]) has raised "Cannot Bridge
\* another Bridge!" with accessory 1 in the list, its listeners on, and no
\* _updateConfiguration in the call
C36_Witness ==
  /\ brCall = "addBridgedAccessories"
  /\ brThrew = CannotBridge
  /\ bridgedAccessories = <<1>>
  /\ lis[1] = 1 /\ bridged[1]
  /\ recomputes = 0
  /\ configured = <<>>

-----------------------------------------------------------------------------
(* Claims about the constructors of the standard Service types *)

\* C37: new T(displayName) with a non-empty displayName returns for every
\* standard Service type T, and the Service then has exactly one Name
\* characteristic, whose cached value is displayName.
C37_NamedOnce ==
  [][\A t \in ServiceTypes, n \in DisplayNames :
       (construct(t, n) /\ truthy(n)) =>
          /\ svcThrew' = NoErr
          /\ Cardinality({i \in DOMAIN characteristics' :
                            characteristics'[i].UUID = NameCtor}) = 1
          /\ value' = n]_vars

\* new Service.AccessoryInformation with a name of four characters has
\* raised the error of the duplicate UUID, after the Name characteristic
\* and the first required characteristic were added
C37_Witness ==
  /\ svcCall.method = "Service.AccessoryInformation"
  /\ lastUpdate = Str(4)
  /\ svcThrew = SameUUID
  /\ Len(characteristics) = 2
  /\ characteristics[1].UUID = NameCtor
  /\ value = Str(4)

-----------------------------------------------------------------------------
(* Claims about the IDs of characteristics added after _assignIDs *)

\* C38: once _assignIDs has run on a Service, every characteristic in the
\* object its toHAP returns has an iid that is not null, the characteristics
\* added to the Service after that call too.
C38_HapCellsHaveIDs ==
  (svcCall.method = "toHAP" /\ svcIID[svcArg.at] # 0) =>
     \A n \in DOMAIN svcHap.characteristics : svcHap.characteristics[n].iid # 0

\* toHAP of a Service whose IDs were assigned with one characteristic, and
\* which was given a second one afterwards: the first has an iid, the second
\* has iid null
C38_Witness ==
  /\ svcCall.method = "toHAP"
  /\ svcIID[svcArg.at] # 0
  /\ svcHap.iid = svcIID[svcArg.at]
  /\ Len(svcHap.characteristics) = 2
  /\ svcHap.characteristics[1].iid # 0
  /\ svcHap.characteristics[2].iid = 0

-----------------------------------------------------------------------------
(* Claims about the Storage with the queue *)

\* C39: when every fs.readFile and fs.writeFile completes, every task passed
\* to get or set is taken off the queue and run, and its callback is
\* invoked, with no further call of get or set needed for it.
C39_EveryTaskRuns ==
  \A id \in 1..MaxCalls :
    (Len(tasks) >= id) ~> (Len(answered) >= id /\ answered[id] # NoAnswer)

\* a task is in the queue while nothing is locked and no read or write is
\* in flight: only another call of get or set, which can still be made,
\* takes it off
C39_Witness ==
  /\ Len(tasks) < MaxCalls
  /\ queue # <<>>
  /\ ~lock
  /\ reads = {}
  /\ writing = NoWrite
  /\ \A id \in DOMAIN tasks :
       answered[id] = NoAnswer <=> \E n \in DOMAIN queue : queue[n] = id

\* C40: once set(k, v) has completed and no set of k was called after it,
\* the file holds v for k after every set that completes later, and every
\* get(k) called later is answered with v, however the reads and writes in
\* flight complete.
C40_SettledValueStays ==
  /\ \A k \in Keys :
       settled[k] # 0 => (file.exists /\ file.obj[k] = settled[k])
  /\ \A id \in DOMAIN tasks :
       (tasks[id].action = "get" /\ tasks[id].want # 0 /\ answered[id] # NoAnswer) =>
          answered[id].val = tasks[id].want

\* set("k", 1) completed, and then set("j", 2) completed: the file holds 2
\* for "j" and nothing for "k"
C40_Witness ==
  /\ settled = [k \in Keys |-> IF k = "k" THEN 1 ELSE 2]
  /\ writing = NoWrite
  /\ file = File([k \in Keys |-> IF k = "k" THEN 0 ELSE 2])

=============================================================================
